---------------------------- MODULE Spec2Model ----------------------------
(***************************************************************************)
(* Model of the miner IPFS pinning service:                                *)
(*   src/db_manager.py     the persistent store (three tables)             *)
(*   src/miner_service.py  profile sync, pin/unpin workers, sweep,         *)
(*                         unpinnable report, main loop and startup        *)
(* The storage daemon (src/hippius/ipfs_utils.py) and the chain            *)
(* (src/hippius/substrate_interface.py) are the environment: each call's   *)
(* outcome is chosen nondeterministically among the values the call can    *)
(* return.                                                                 *)
(***************************************************************************)
EXTENDS Integers, Sequences, FiniteSets, TLC

\* ------------------------------------------------------------------------
\* Bounds of the model and configuration values
\* ------------------------------------------------------------------------

\* config_manager.MAX_PIN_RETRIES (configurable, default 5); the model runs
\* the service with a small value.
MAX_PIN_RETRIES == 2

\* config_manager.GC_TRIGGER_INTERVAL_LOOPS (configurable, default 10).
GC_TRIGGER_INTERVAL_LOOPS == 2

\* How many times the on-chain profile may change during a behaviour.
MaxChainChanges == 1

\* How many times the report file may be deleted or damaged from outside.
MaxFileEvents == 1

\* How many calls of the storage daemon (id, pin, unpin, list, fetch),
\* requests to the chain and writes of the report file may fail during a
\* behaviour.
MaxFailures == 4

\* How many backend calls may fail in SpecSweep.
MaxSweepFailures == 2

\* How many steps may hit store errors (only in SpecStoreFault).
MaxStoreFaults == 1

\* How many backend calls and file writes may fail in SpecStoreFault.
MaxFailuresUnderStoreFault == 1

\* the requests that may fail in a behaviour of SpecFair
MaxFairFailures == 1

None == "None"

\* Profile documents and the content CIDs they list (already decoded).
Profiles == {"P1", "P2"}
Content == {"c1", "c2"}
CIDS == Profiles \cup Content

ProfileContent(p) == IF p = "P1" THEN {"c1"} ELSE {"c1", "c2"}

\* ------------------------------------------------------------------------
\* State
\* ------------------------------------------------------------------------
VARIABLES
  pc,          \* position of the single control flow (startup, main loop)
  pins,        \* table pinned_cids: cid -> [status, retry_count]
  prof,        \* table miner_profile: profile_cid -> [row, is_active, pinned_locally]
  unp,         \* table unpinnable_cids: cid -> [row, reported]
  ipfs,        \* CIDs pinned in the storage daemon
  chain,       \* the profile CID the chain holds for this node, or None
  reportFile,  \* the report document: [kind, entries]
  gc_counter,  \* main_loop's in-memory counter
  MY_IPFS_NODE_ID,  \* the module global: None until startup() has resolved it
  envBudget,   \* [chain, file, fail, store]: environment events still allowed
  sweep,       \* SpecSweep only: [D, okRuns], see SweepRun
  trace,       \* steps of the current poll cycle that have run, in order
  raised,      \* the unhandled error the last step raised, or None
  calls,       \* what the last step did, see NoCalls
  decoded,     \* SpecDecode only: [value, result, done], see Decode
  scheduled    \* content CIDs a profile sync has set to unpin_requested and no
               \* later sync has found in the desired content

vars == <<pc, pins, prof, unp, ipfs, chain, reportFile, gc_counter, MY_IPFS_NODE_ID,
          envBudget, sweep, trace, raised, calls, decoded, scheduled>>

NoPin == [status |-> "absent", retry_count |-> 0]
NoProfile == [row |-> FALSE, is_active |-> FALSE, pinned_locally |-> FALSE]
NoUnpinnable == [row |-> FALSE, reported |-> FALSE, reason |-> <<>>]
\* step: the step; seen: the profile CID its chain query returned; path: the
\* branch the profile sync took; pin, pinFail, unpin: the CIDs of its backend
\* calls; skipped: flushed CIDs the report already held; gc: garbage
\* collection was triggered; fails: how many of its backend calls and file
\* writes failed; faults: the store call sites that hit an error; unpinFail:
\* the CIDs whose unpin call failed; npin, nunpin: how many pin and unpin
\* calls the step made; listed: what its list_pinned_cids call returned;
\* arg: SpecUnpinnable only, the arguments of the store operation applied
NoCalls == [step |-> "none", seen |-> None, path |-> "none", pin |-> {}, pinFail |-> {},
            unpin |-> {}, skipped |-> {}, gc |-> FALSE, fails |-> 0, faults |-> {},
            unpinFail |-> {}, npin |-> 0, nunpin |-> 0, listed |-> {}, arg |-> <<>>]

Statuses == {"pending_pin", "pinned", "failed_pin", "unpin_requested"}

\* ------------------------------------------------------------------------
\* src/db_manager.py.  Every operation takes err: TRUE when the operation
\* hits aiosqlite.Error (the transaction is not committed).
\* ------------------------------------------------------------------------

add_cid_to_pin(p, cid, err) ==
  IF err THEN p
  ELSE LET ins == IF p[cid].status = "absent"
                  THEN [p EXCEPT ![cid] = [status |-> "pending_pin", retry_count |-> 0]]
                  ELSE p
       IN IF ins[cid].status = "failed_pin"
          THEN [ins EXCEPT ![cid] = [status |-> "pending_pin", retry_count |-> 0]]
          ELSE ins

\* update_cid_status(cid, status): retry_count is None
update_cid_status(p, cid, status, err) ==
  IF err \/ p[cid].status = "absent" THEN p
  ELSE [p EXCEPT ![cid].status = status]

\* update_cid_status(cid, status, retry_count)
update_cid_status_rc(p, cid, status, retry_count, err) ==
  IF err \/ p[cid].status = "absent" THEN p
  ELSE [p EXCEPT ![cid] = [status |-> status, retry_count |-> retry_count]]

\* rows (cid, retry_count); [] on error
get_cids_by_status(p, status, err) ==
  IF err THEN {}
  ELSE {<<c, p[c].retry_count>> : c \in {x \in CIDS : p[x].status = status}}

\* variant: INSERT OR IGNORE, an existing row is kept as it is
add_unpinnable_cid_ignore(u, cid, reason, err) ==
  IF err \/ u[cid].row THEN u
  ELSE [u EXCEPT ![cid] = [row |-> TRUE, reported |-> FALSE, reason |-> reason]]

\* INSERT OR REPLACE: the row is rewritten, reported falls back to its default
add_unpinnable_cid(u, cid, reason, err) ==
  IF err THEN u
  ELSE [u EXCEPT ![cid] = [row |-> TRUE, reported |-> FALSE, reason |-> reason]]

get_unpinnable_cids_to_report(u, err) ==
  IF err THEN {} ELSE {c \in CIDS : u[c].row /\ ~u[c].reported}

mark_unpinnable_cids_as_reported(u, cids, err) ==
  IF err \/ cids = {} THEN u
  ELSE [c \in CIDS |-> IF c \in cids /\ u[c].row
                       THEN [u[c] EXCEPT !.reported = TRUE] ELSE u[c]]

\* variant: the deactivation clears is_active and leaves pinned_locally
DeactivatedKeepsPinnedLocally(pr) ==
  [x \in Profiles |-> IF pr[x].row /\ pr[x].is_active
                      THEN [pr[x] EXCEPT !.is_active = FALSE]
                      ELSE pr[x]]

\* variant: the activation forgets to deactivate the previous rows
DeactivatedKeepsActive(pr) == pr

Deactivated(pr) ==
  [x \in Profiles |-> IF pr[x].row /\ pr[x].is_active
                      THEN [pr[x] EXCEPT !.is_active = FALSE, !.pinned_locally = FALSE]
                      ELSE pr[x]]

\* set_active_miner_profile's call of add_cid_to_pin(profile_cid) opens a
\* second connection while the first one holds its uncommitted write
\* transaction: SQLite refuses the second writer ("database is locked"), and
\* add_cid_to_pin catches and logs that error, so the call adds no row.
NestedWriteLocked == TRUE

\* variant: the activation swallows its store error like the other operations
set_active_swallows_error(pr, p, profile_cid, err) ==
  IF err THEN [prof |-> pr, pins |-> p, raised |-> FALSE]
  ELSE LET off == Deactivated(pr)
       IN IF profile_cid # None
          THEN [prof |-> [off EXCEPT ![profile_cid] =
                            [row |-> TRUE, is_active |-> TRUE, pinned_locally |-> FALSE]],
                pins |-> add_cid_to_pin(p, profile_cid, NestedWriteLocked),
                raised |-> FALSE]
          ELSE [prof |-> off, pins |-> p, raised |-> FALSE]

\* Returns [prof, pins, raised]; on aiosqlite.Error nothing is committed and
\* the error is raised again.
set_active_miner_profile(pr, p, profile_cid, err) ==
  IF err THEN [prof |-> pr, pins |-> p, raised |-> TRUE]
  ELSE LET off == Deactivated(pr)
       IN IF profile_cid # None
          THEN [prof |-> [off EXCEPT ![profile_cid] =
                            [row |-> TRUE, is_active |-> TRUE, pinned_locally |-> FALSE]],
                pins |-> add_cid_to_pin(p, profile_cid, NestedWriteLocked),
                raised |-> FALSE]
          ELSE [prof |-> off, pins |-> p, raised |-> FALSE]

ActiveRows(pr) == {x \in Profiles : pr[x].row /\ pr[x].is_active}

\* (profile_cid, pinned_locally) of the active row; None is the empty tuple
get_active_miner_profile(pr, err) ==
  IF err \/ ActiveRows(pr) = {} THEN <<>>
  ELSE LET x == CHOOSE y \in ActiveRows(pr) : TRUE
       IN <<x, pr[x].pinned_locally>>

update_miner_profile_pinned_status(pr, profile_cid, pinned, err) ==
  IF err THEN pr
  ELSE IF pr[profile_cid].row /\ pr[profile_cid].is_active
       THEN [pr EXCEPT ![profile_cid].pinned_locally = pinned]
       ELSE pr

get_all_pinned_cids_from_db(p, err) ==
  IF err THEN {} ELSE {c \in CIDS : p[c].status \in {"pinned", "pending_pin"}}

\* (cid, status, retry_count); None is the empty tuple
get_cid_details(p, cid, err) ==
  IF err \/ p[cid].status = "absent" THEN <<>>
  ELSE <<cid, p[cid].status, p[cid].retry_count>>

\* variant: the PinRecord survives the demotion
remove_cid_keeps_row(p, cid, err) == p

remove_cid_from_pinning(p, cid, err) ==
  IF err THEN p ELSE [p EXCEPT ![cid] = NoPin]


\* ------------------------------------------------------------------------
\* src/hippius/ipfs_utils.py: the storage daemon.  ok is the call's result.
\* A world w is [pins, prof, unp, ipfs, calls, raised].
\* ------------------------------------------------------------------------

NoteFailure(w, failed) == [w EXCEPT !.calls.fails = IF failed THEN @ + 1 ELSE @]

pin_cid(w, cid, ok) ==
  NoteFailure([w EXCEPT !.ipfs = IF ok THEN @ \cup {cid} ELSE @,
                        !.calls.pin = @ \cup {cid},
                        !.calls.npin = @ + 1,
                        !.calls.pinFail = IF ok THEN @ ELSE @ \cup {cid}],
              ~ok)

unpin_cid(w, cid, ok) ==
  NoteFailure([w EXCEPT !.ipfs = IF ok THEN @ \ {cid} ELSE @,
                        !.calls.unpin = @ \cup {cid},
                        !.calls.nunpin = @ + 1,
                        !.calls.unpinFail = IF ok THEN @ ELSE @ \cup {cid}],
              ~ok)

\* list_pinned_cids returns [] when the request fails
list_pinned_cids(w, ok) == IF ok THEN w.ipfs ELSE {}

\* ------------------------------------------------------------------------
\* src/miner_service.py.  F is the set of store call sites that hit an
\* error during the step; okPin / okUnpin are the CIDs whose pin / unpin
\* calls succeed during the step.
\* ------------------------------------------------------------------------

\* the reason text of a demotion; the sweep's text differs from the workers'
FailedAfter(w, new_retry_count) ==
  IF w.calls.step = "reconcile"
  THEN <<"Failed after retries (discovered during reconciliation)", new_retry_count>>
  ELSE <<"Failed after retries", new_retry_count>>

\* variant: a failed pin is always counted and never demoted
FailedPinNeverDemotes(w, cid, retry_count, F) ==
  [w EXCEPT !.pins = update_cid_status_rc(@, cid, "failed_pin", retry_count + 1,
                                          "update_status" \in F)]

\* variant: the threshold is compared with > instead of >=
FailedPinLate(w, cid, retry_count, F) ==
  LET new_retry_count == retry_count + 1
  IN IF new_retry_count > MAX_PIN_RETRIES
     THEN [w EXCEPT !.pins = remove_cid_from_pinning(@, cid, "remove" \in F),
                    !.unp = add_unpinnable_cid(@, cid, FailedAfter(w, new_retry_count),
                                               "add_unpinnable" \in F)]
     ELSE [w EXCEPT !.pins = update_cid_status_rc(@, cid, "failed_pin", new_retry_count,
                                                  "update_status" \in F)]

\* the retry policy shared by the pin workers and the sweep
FailedPin(w, cid, retry_count, F) ==
  LET new_retry_count == retry_count + 1
  IN IF new_retry_count >= MAX_PIN_RETRIES
     THEN [w EXCEPT !.pins = remove_cid_from_pinning(@, cid, "remove" \in F),
                    !.unp = add_unpinnable_cid(@, cid, FailedAfter(w, new_retry_count),
                                               "add_unpinnable" \in F)]
     ELSE [w EXCEPT !.pins = update_cid_status_rc(@, cid, "failed_pin", new_retry_count,
                                                  "update_status" \in F)]

ManagedRows(w, F) ==
  get_cids_by_status(w.pins, "pinned", "read_status" \in F)
    \cup get_cids_by_status(w.pins, "pending_pin", "read_status" \in F)
    \cup get_cids_by_status(w.pins, "failed_pin", "read_status" \in F)

RECURSIVE MarkForUnpin(_, _, _)
MarkForUnpin(w, todo, F) ==
  IF todo = {} THEN w
  ELSE LET cid == CHOOSE x \in todo : TRUE
       IN MarkForUnpin(
            [w EXCEPT !.pins = update_cid_status(@, cid, "unpin_requested",
                                                 "update_status" \in F)],
            todo \ {cid}, F)

\* variant: the diff registers nothing
AddForPinNothing(w, todo, F) == w

RECURSIVE AddForPin(_, _, _)
AddForPin(w, todo, F) ==
  IF todo = {} THEN w
  ELSE LET cid == CHOOSE x \in todo : TRUE
       IN AddForPin([w EXCEPT !.pins = add_cid_to_pin(@, cid, "add_pin" \in F)],
                    todo \ {cid}, F)

\* lines 120-133: the chain reports no profile.  The loop unpacks every row
\* into three names, and get_cids_by_status returns rows of two columns:
\* with at least one managed row the first iteration raises ValueError.
Teardown(w, F) ==
  LET r == set_active_miner_profile(w.prof, w.pins, None, "set_active" \in F)
  IN IF r.raised THEN [w EXCEPT !.raised = "aiosqlite.Error"]
     ELSE LET w1 == [w EXCEPT !.prof = r.prof, !.pins = r.pins]
              rows == ManagedRows(w1, F)
          IN IF \E t \in rows : Len(t) # 3
             THEN [w1 EXCEPT !.raised = "ValueError"]
             ELSE MarkForUnpin(w1, {t[1] : t \in rows}, F)

\* lines 158-181: diff the profile's content against the managed CIDs
DiffContent(w, on_chain, curCid, F) ==
  LET cids_from_profile == ProfileContent(on_chain)
      rows == ManagedRows(w, F)
      managed0 == {t[1] : t \in {r \in rows : r[1] # on_chain}}
      current_managed == IF curCid # None /\ curCid # on_chain
                         THEN managed0 \ {curCid} ELSE managed0
      w1 == AddForPin(w, cids_from_profile \ current_managed, F)
  IN MarkForUnpin(w1, current_managed \ cids_from_profile, F)

\* variant: the unchanged-profile path diffs the content again
VerifyProfilePinRediff(w, on_chain, cur, okPin, F) ==
  DiffContent(w, on_chain, on_chain, F)

\* lines 136-143: unchanged profile, not startup
VerifyProfilePin(w, on_chain, cur, okPin, F) ==
  IF cur # <<>> /\ ~cur[2]
  THEN LET w1 == pin_cid(w, on_chain, on_chain \in okPin)
       IN IF on_chain \in okPin
          THEN [w1 EXCEPT
                 !.prof = update_miner_profile_pinned_status(@, on_chain, TRUE,
                                                             "update_profile" \in F),
                 !.pins = update_cid_status(@, on_chain, "pinned", "update_status" \in F)]
          ELSE w1
  ELSE w

\* lines 145-186: new or changed profile, or startup
ProcessProfile(w, on_chain, curCid, okPin, jsonOk, F) ==
  LET r == set_active_miner_profile(w.prof, w.pins, on_chain, "set_active" \in F)
  IN IF r.raised THEN [w EXCEPT !.raised = "aiosqlite.Error"]
     ELSE LET w1 == pin_cid([w EXCEPT !.prof = r.prof, !.pins = r.pins],
                            on_chain, on_chain \in okPin)
          IN IF on_chain \in okPin
             THEN LET w2 == [w1 EXCEPT
                       !.prof = update_miner_profile_pinned_status(@, on_chain, TRUE,
                                                             "update_profile" \in F),
                       !.pins = update_cid_status(@, on_chain, "pinned",
                                                  "update_status" \in F)]
                  IN IF jsonOk THEN DiffContent(w2, on_chain, curCid, F)
                     ELSE NoteFailure(w2, TRUE)
             ELSE [w1 EXCEPT
                    !.prof = update_miner_profile_pinned_status(@, on_chain, FALSE,
                                                             "update_profile" \in F),
                    !.pins = update_cid_status_rc(@, on_chain, "failed_pin", 1,
                                                  "update_status" \in F)]

fetch_and_process_profile(w, is_startup, on_chain, okPin, jsonOk, F) ==
  LET cur == get_active_miner_profile(w.prof, "get_active" \in F)
      curCid == IF cur = <<>> THEN None ELSE cur[1]
  IN IF on_chain = None
     THEN IF curCid # None
          THEN Teardown([w EXCEPT !.calls.path = "teardown"], F)
          ELSE [w EXCEPT !.calls.path = "no_profile"]
     ELSE IF on_chain = curCid /\ ~is_startup
          THEN VerifyProfilePin([w EXCEPT !.calls.path = "unchanged"], on_chain, cur, okPin, F)
          ELSE ProcessProfile([w EXCEPT !.calls.path = "changed"], on_chain, curCid,
                              okPin, jsonOk, F)

RECURSIVE PendingLoop(_, _, _, _)
PendingLoop(w, rows, okPin, F) ==
  IF rows = {} THEN w
  ELSE LET row == CHOOSE r \in rows : TRUE
           cid == row[1]
           retry_count == row[2]
           w1 == pin_cid(w, cid, cid \in okPin)
           w2 == IF cid \in okPin
                 THEN [w1 EXCEPT !.pins = update_cid_status(@, cid, "pinned",
                                                            "update_status" \in F)]
                 ELSE FailedPin(w1, cid, retry_count, F)
       IN PendingLoop(w2, rows \ {row}, okPin, F)

\* variant: the pass handles one pending row and leaves the others
process_pending_pins_one_row(w, okPin, F) ==
  LET rows == get_cids_by_status(w.pins, "pending_pin", "read_status" \in F)
  IN IF rows = {} THEN w ELSE PendingLoop(w, {CHOOSE r \in rows : TRUE}, okPin, F)

process_pending_pins(w, okPin, F) ==
  PendingLoop(w, get_cids_by_status(w.pins, "pending_pin", "read_status" \in F), okPin, F)

RECURSIVE FailedLoop(_, _, _, _)
FailedLoop(w, rows, okPin, F) ==
  IF rows = {} THEN w
  ELSE LET row == CHOOSE r \in rows : TRUE
           cid == row[1]
           retry_count == row[2]
           w2 == IF retry_count >= MAX_PIN_RETRIES
                 THEN [w EXCEPT !.pins = remove_cid_from_pinning(@, cid, "remove" \in F),
                                !.unp = add_unpinnable_cid(
                                          @, cid, <<"Reached max retries", retry_count>>,
                                          "add_unpinnable" \in F)]
                 ELSE LET w1 == pin_cid(w, cid, cid \in okPin)
                      IN IF cid \in okPin
                         THEN [w1 EXCEPT !.pins = update_cid_status(@, cid, "pinned",
                                                            "update_status" \in F)]
                         ELSE FailedPin(w1, cid, retry_count, F)
       IN FailedLoop(w2, rows \ {row}, okPin, F)

\* variant: the retry pass without the check of the threshold
process_failed_pins_retries_all(w, okPin, F) ==
  PendingLoop(w, get_cids_by_status(w.pins, "failed_pin", "read_status" \in F), okPin, F)

process_failed_pins(w, okPin, F) ==
  FailedLoop(w, get_cids_by_status(w.pins, "failed_pin", "read_status" \in F), okPin, F)

RECURSIVE UnpinLoop(_, _, _, _)
UnpinLoop(w, rows, okUnpin, F) ==
  IF rows = {} THEN w
  ELSE LET row == CHOOSE r \in rows : TRUE
           cid == row[1]
           w1 == unpin_cid(w, cid, cid \in okUnpin)
           w2 == IF cid \in okUnpin
                 THEN [w1 EXCEPT !.pins = remove_cid_from_pinning(@, cid, "remove" \in F)]
                 ELSE [w1 EXCEPT !.pins = update_cid_status(@, cid, "failed_pin",
                                                            "update_status" \in F)]
       IN UnpinLoop(w2, rows \ {row}, okUnpin, F)

\* variant: a failed unpin leaves the request in the queue
process_unpin_requests_keeps_failed(w, okUnpin, F) ==
  LET rows == get_cids_by_status(w.pins, "unpin_requested", "read_status" \in F)
      w1 == UnpinLoop(w, rows, okUnpin, F)
  IN [w1 EXCEPT !.pins = [c \in CIDS |->
                            IF \E r \in rows : r[1] = c /\ c \notin okUnpin
                            THEN w.pins[c] ELSE @[c]]]

\* variant: a failed unpin goes through the retry policy of the pin workers
process_unpin_requests_counts_retries(w, okUnpin, F) ==
  LET rows == get_cids_by_status(w.pins, "unpin_requested", "read_status" \in F)
      w1 == UnpinLoop(w, rows, okUnpin, F)
      bad == {r \in rows : r[1] \notin okUnpin}
  IN [w1 EXCEPT !.pins = [c \in CIDS |->
                            IF \E r \in bad : r[1] = c
                            THEN [status |-> "failed_pin",
                                  retry_count |-> w.pins[c].retry_count + 1]
                            ELSE @[c]]]

process_unpin_requests(w, okUnpin, F) ==
  UnpinLoop(w, get_cids_by_status(w.pins, "unpin_requested", "read_status" \in F),
            okUnpin, F)

\* variant: the sweep leaves stray pins alone
SweepStrayKeeps(w, todo, desired, active_profile_cid, okUnpin, F) == w

\* variant: the sweep keeps books on stray pins as the unpin worker does
RECURSIVE SweepStrayKeepsBooks(_, _, _, _, _, _)
SweepStrayKeepsBooks(w, todo, desired, active_profile_cid, okUnpin, F) ==
  IF todo = {} THEN w
  ELSE LET cid == CHOOSE x \in todo : TRUE
           w1 == IF cid = active_profile_cid
                 THEN IF active_profile_cid # None /\ active_profile_cid \notin desired
                      THEN [w EXCEPT !.pins =
                              update_cid_status(
                                add_cid_to_pin(@, active_profile_cid, "add_pin" \in F),
                                active_profile_cid, "pinned", "update_status" \in F)]
                      ELSE w
                 ELSE UnpinLoop(w, {<<cid, 0>>}, okUnpin, F)
       IN SweepStrayKeepsBooks(w1, todo \ {cid}, desired, active_profile_cid, okUnpin, F)

\* variant: the sweep skips the active profile document without registering it
RECURSIVE SweepStrayNoRepair(_, _, _, _, _, _)
SweepStrayNoRepair(w, todo, desired, active_profile_cid, okUnpin, F) ==
  IF todo = {} THEN w
  ELSE LET cid == CHOOSE x \in todo : TRUE
           w1 == IF cid = active_profile_cid THEN w
                 ELSE unpin_cid(w, cid, cid \in okUnpin)
       IN SweepStrayNoRepair(w1, todo \ {cid}, desired, active_profile_cid, okUnpin, F)

\* lines 278-290: pinned in IPFS, not intended by the store
RECURSIVE SweepStray(_, _, _, _, _, _)
SweepStray(w, todo, desired, active_profile_cid, okUnpin, F) ==
  IF todo = {} THEN w
  ELSE LET cid == CHOOSE x \in todo : TRUE
           w1 == IF cid = active_profile_cid
                 THEN IF active_profile_cid # None /\ active_profile_cid \notin desired
                      THEN [w EXCEPT !.pins =
                              update_cid_status(
                                add_cid_to_pin(@, active_profile_cid, "add_pin" \in F),
                                active_profile_cid, "pinned", "update_status" \in F)]
                      ELSE w
                 ELSE unpin_cid(w, cid, cid \in okUnpin)
       IN SweepStray(w1, todo \ {cid}, desired, active_profile_cid, okUnpin, F)

\* variant: a failed repair counts from zero instead of the stored retry_count
RECURSIVE SweepMissingFromZero(_, _, _, _)
SweepMissingFromZero(w, todo, okPin, F) ==
  IF todo = {} THEN w
  ELSE LET cid == CHOOSE x \in todo : TRUE
           w1 == pin_cid(w, cid, cid \in okPin)
           w2 == IF cid \in okPin
                 THEN [w1 EXCEPT !.pins = update_cid_status(@, cid, "pinned",
                                                            "update_status" \in F)]
                 ELSE FailedPin(w1, cid, 0, F)
       IN SweepMissingFromZero(w2, todo \ {cid}, okPin, F)

\* lines 292-311: intended by the store, not pinned in IPFS
RECURSIVE SweepMissing(_, _, _, _)
SweepMissing(w, todo, okPin, F) ==
  IF todo = {} THEN w
  ELSE LET cid == CHOOSE x \in todo : TRUE
           w1 == pin_cid(w, cid, cid \in okPin)
           cid_details == get_cid_details(w1.pins, cid, "get_details" \in F)
           current_retry_count == IF cid_details # <<>> THEN cid_details[3] ELSE 0
           w2 == IF cid \in okPin
                 THEN [w1 EXCEPT !.pins = update_cid_status(@, cid, "pinned",
                                                            "update_status" \in F)]
                 ELSE FailedPin(w1, cid, current_retry_count, F)
       IN SweepMissing(w2, todo \ {cid}, okPin, F)

reconcile_ipfs_pins(w, listOk, okPin, okUnpin, F) ==
  LET ipfs_pinned_cids == list_pinned_cids(w, listOk)
      db_should_be_pinned_cids == get_all_pinned_cids_from_db(w.pins, "get_pinned" \in F)
      active_profile == get_active_miner_profile(w.prof, "get_active" \in F)
      active_profile_cid == IF active_profile # <<>> THEN active_profile[1] ELSE None
      w1 == SweepStray(NoteFailure([w EXCEPT !.calls.listed = ipfs_pinned_cids], ~listOk),
                       ipfs_pinned_cids \ db_should_be_pinned_cids,
                       db_should_be_pinned_cids, active_profile_cid, okUnpin, F)
  IN SweepMissing(w1, db_should_be_pinned_cids \ ipfs_pinned_cids, okPin, F)

\* ------------------------------------------------------------------------
\* The report document.  kind: "absent", "garbage" (not JSON), "notlist"
\* (JSON, not an array), "nondict" (an array whose elements are not
\* objects), "list" (an array of entries; entries holds their cids in order).
\* ------------------------------------------------------------------------
NoFile == [kind |-> "absent", entries |-> <<>>]
Garbage == [kind |-> "garbage", entries |-> <<>>]

InReport(entries, cid) == \E i \in 1..Len(entries) : entries[i] = cid

\* variant: every flushed cid is appended, whatever the document holds
RECURSIVE AppendAll(_, _)
AppendAll(report_data, todo) ==
  IF todo = {} THEN report_data
  ELSE LET cid == CHOOSE x \in todo : TRUE
       IN AppendAll(Append(report_data, cid), todo \ {cid})

\* lines 340-345: append every flushed cid that no entry holds yet
RECURSIVE AppendNew(_, _)
AppendNew(report_data, todo) ==
  IF todo = {} THEN report_data
  ELSE LET cid == CHOOSE x \in todo : TRUE
       IN AppendNew(IF ~InReport(report_data, cid)
                    THEN Append(report_data, cid) ELSE report_data,
                    todo \ {cid})

\* variant: the flush marks its records reported before it writes the file
report_marks_before_write(u, file, write, F) ==
  LET cids_to_report == get_unpinnable_cids_to_report(u, "get_report" \in F)
      report_data == IF file.kind = "list" THEN file.entries ELSE <<>>
      marked == mark_unpinnable_cids_as_reported(u, cids_to_report, "mark_reported" \in F)
  IN IF cids_to_report = {}
     THEN [unp |-> u, file |-> file, skipped |-> {}, raised |-> None, fails |-> 0]
     ELSE IF file.kind = "nondict"
     THEN [unp |-> marked, file |-> file, skipped |-> {}, raised |-> "AttributeError",
           fails |-> 0]
     ELSE IF write = "ok"
     THEN [unp |-> marked,
           file |-> [kind |-> "list", entries |-> AppendNew(report_data, cids_to_report)],
           skipped |-> {c \in cids_to_report : InReport(report_data, c)},
           raised |-> None, fails |-> 0]
     ELSE [unp |-> marked,
           file |-> IF write = "truncated" THEN Garbage ELSE file,
           skipped |-> {}, raised |-> None, fails |-> 1]

\* write is the outcome of rewriting the file: "ok", "refused" (open fails,
\* the file is untouched) or "truncated" (the dump fails after the open).
\* Returns [unp, file, skipped, raised, fails].
report_unpinnable_cids(u, file, write, F) ==
  LET cids_to_report == get_unpinnable_cids_to_report(u, "get_report" \in F)
      report_data == IF file.kind = "list" THEN file.entries ELSE <<>>
      new_data == AppendNew(report_data, cids_to_report)
  IN IF cids_to_report = {}
     THEN [unp |-> u, file |-> file, skipped |-> {}, raised |-> None, fails |-> 0]
     ELSE IF file.kind = "nondict"
     THEN [unp |-> u, file |-> file, skipped |-> {}, raised |-> "AttributeError",
           fails |-> 0]
     ELSE IF write = "ok"
     THEN [unp |-> mark_unpinnable_cids_as_reported(u, cids_to_report,
                                                    "mark_reported" \in F),
           file |-> [kind |-> "list", entries |-> new_data],
           skipped |-> {c \in cids_to_report : InReport(report_data, c)},
           raised |-> None, fails |-> 0]
     ELSE [unp |-> u,
           file |-> IF write = "truncated" THEN Garbage ELSE file,
           skipped |-> {}, raised |-> None, fails |-> 1]

\* lines 443-486: aggressive startup cleanup (no store access)
RECURSIVE UnpinAll(_, _, _)
UnpinAll(w, todo, okUnpin) ==
  IF todo = {} THEN w
  ELSE LET cid == CHOOSE x \in todo : TRUE
       IN UnpinAll(unpin_cid(w, cid, cid \in okUnpin), todo \ {cid}, okUnpin)

\* variant: the cleanup unpins every listed CID, whatever the chain profile
StartupCleanupUnpinsListed(w, listOk, initial_profile_doc_cid, okPin, jsonOk, okUnpin) ==
  LET currently_pinned_on_ipfs == list_pinned_cids(w, listOk)
      w1 == IF initial_profile_doc_cid # None
            THEN pin_cid(w, initial_profile_doc_cid, initial_profile_doc_cid \in okPin)
            ELSE w
      probed == IF initial_profile_doc_cid = None THEN "probe_none"
                ELSE IF initial_profile_doc_cid \in okPin /\ jsonOk THEN "probe_content"
                ELSE "probe_document"
  IN UnpinAll(NoteFailure([w1 EXCEPT !.calls.listed = currently_pinned_on_ipfs,
                                     !.calls.path = probed], ~listOk),
              currently_pinned_on_ipfs, okUnpin)

StartupCleanup(w, listOk, initial_profile_doc_cid, okPin, jsonOk, okUnpin) ==
  LET currently_pinned_on_ipfs == list_pinned_cids(w, listOk)
      w1 == IF initial_profile_doc_cid # None
            THEN pin_cid(w, initial_profile_doc_cid, initial_profile_doc_cid \in okPin)
            ELSE w
      profile_content_cids ==
        IF initial_profile_doc_cid # None /\ initial_profile_doc_cid \in okPin /\ jsonOk
        THEN ProfileContent(initial_profile_doc_cid) ELSE {}
      desired_pins_from_profile ==
        (IF initial_profile_doc_cid # None THEN {initial_profile_doc_cid} ELSE {})
          \cup profile_content_cids
      fetchFailed == initial_profile_doc_cid # None /\ initial_profile_doc_cid \in okPin
                       /\ ~jsonOk
      probed == IF initial_profile_doc_cid = None THEN "probe_none"
                ELSE IF initial_profile_doc_cid \in okPin /\ jsonOk THEN "probe_content"
                ELSE "probe_document"
  IN UnpinAll(NoteFailure(NoteFailure([w1 EXCEPT !.calls.listed = currently_pinned_on_ipfs,
                                                 !.calls.path = probed],
                                      ~listOk), fetchFailed),
              currently_pinned_on_ipfs \ desired_pins_from_profile, okUnpin)

\* ------------------------------------------------------------------------
\* main_loop and startup: one action per step
\* ------------------------------------------------------------------------

\* variant: the unpin worker runs before the pin workers
CycleOrderUnpinFirst == <<"sync", "unpin", "pending", "failed", "reconcile", "report", "gc">>

\* lines 389-403: the order of the steps inside the try block
CycleOrder == <<"sync", "pending", "failed", "unpin", "reconcile", "report", "gc">>

StepIndex(step) == CHOOSE i \in 1..Len(CycleOrder) : CycleOrder[i] = step

\* the step that follows a step that returned normally
NextStep(step) ==
  IF StepIndex(step) < Len(CycleOrder) THEN CycleOrder[StepIndex(step) + 1] ELSE "sleep"

\* variant: the error leaves main_loop
AfterErrorLeavesLoop == "halted"

\* lines 405-409: except Exception: log, then fall through to the sleep
AfterError == "sleep"

\* substrate_interface.get_miner_profile_cid: None when the chain holds no
\* profile and also when the request fails (up = FALSE)
get_miner_profile_cid(up) == IF up THEN chain ELSE None

Faults(sites) == IF envBudget.store > 0 THEN SUBSET sites ELSE {{}}

World(step, seen, F) ==
  [pins |-> pins, prof |-> prof, unp |-> unp, ipfs |-> ipfs,
   calls |-> [NoCalls EXCEPT !.step = step, !.seen = seen, !.faults = F],
   raised |-> None]

\* the world of a step that has asked the chain for the profile CID: a
\* request that fails (up = FALSE) is one of the behaviour's failures
Asked(step, up, F) == NoteFailure(World(step, get_miner_profile_cid(up), F), ~up)

\* the step's failures are taken from the failures the behaviour may still see
Apply(w) ==
  /\ w.calls.fails <= envBudget.fail
  /\ envBudget' = [envBudget EXCEPT !.fail = @ - w.calls.fails,
                                    !.store = IF w.calls.faults = {} THEN @ ELSE @ - 1]
  /\ pins' = w.pins
  /\ prof' = w.prof
  /\ unp' = w.unp
  /\ ipfs' = w.ipfs
  /\ calls' = w.calls
  /\ raised' = w.raised

Advance(step, w) ==
  /\ Apply(w)
  /\ pc' = IF w.raised # None THEN AfterError ELSE NextStep(step)
  /\ trace' = Append(trace, step)

\* ------------------------------------------------------------------------
\* substrate_interface.decode_hex_bytes_to_cid_string.  A Python str is the
\* sequence of its code points; bytes are a sequence of numbers 0..255.
\* ------------------------------------------------------------------------
Digit == <<"0", "1", "2", "3", "4", "5", "6", "7", "8", "9">>
UpperCase == <<"A", "B", "C", "D", "E", "F", "G", "H", "I", "J", "K", "L", "M",
               "N", "O", "P", "Q", "R", "S", "T", "U", "V", "W", "X", "Y", "Z">>
LowerCase == <<"a", "b", "c", "d", "e", "f", "g", "h", "i", "j", "k", "l", "m",
               "n", "o", "p", "q", "r", "s", "t", "u", "v", "w", "x", "y", "z">>

\* the code point of an ASCII letter or digit
ord(c) ==
  IF \E i \in 1..10 : Digit[i] = c THEN 47 + CHOOSE i \in 1..10 : Digit[i] = c
  ELSE IF \E i \in 1..26 : UpperCase[i] = c
       THEN 64 + CHOOSE i \in 1..26 : UpperCase[i] = c
       ELSE 96 + CHOOSE i \in 1..26 : LowerCase[i] = c

\* a string literal of the source, written character by character
str(t) == [i \in 1..Len(t) |-> ord(t[i])]

startswith(s, prefix) ==
  Len(s) >= Len(prefix) /\ SubSeq(s, 1, Len(prefix)) = prefix

\* str.lower() on the ASCII range
lower(s) == [i \in 1..Len(s) |-> IF s[i] \in 65..90 THEN s[i] + 32 ELSE s[i]]

\* the test "is already a valid CID format" (lines 83-88, again 105-110, 126-131)
LooksLikeCid(s) ==
  \/ startswith(s, str(<<"Q", "m">>)) /\ Len(s) = 46
  \/ startswith(s, str(<<"b", "a", "f", "y">>)) /\ Len(s) > 50
  \/ startswith(s, str(<<"b", "a", "f", "k">>)) /\ Len(s) > 50
  \/ startswith(s, str(<<"k">>)) /\ Len(s) > 50

\* the value of a hexadecimal digit, -1 for any other character
HexValue(c) ==
  IF c \in 48..57 THEN c - 48
  ELSE IF c \in 97..102 THEN c - 87
  ELSE IF c \in 65..70 THEN c - 55
  ELSE -1

is_likely_hex(s) == \A i \in 1..Len(s) : HexValue(s[i]) >= 0

\* binascii.unhexlify: binascii.Error on an odd length or a non-hex digit
unhexlify(s) ==
  IF Len(s) % 2 = 0 /\ is_likely_hex(s)
  THEN [ok |-> TRUE,
        bytes |-> [i \in 1..(Len(s) \div 2) |->
                     16 * HexValue(s[2 * i - 1]) + HexValue(s[2 * i])]]
  ELSE [ok |-> FALSE, bytes |-> <<>>]

\* bytes.decode("utf-8"): the length of the sequence a lead byte starts
Utf8Length(b) ==
  IF b < 128 THEN 1
  ELSE IF b \in 194..223 THEN 2
  ELSE IF b \in 224..239 THEN 3
  ELSE IF b \in 240..244 THEN 4
  ELSE 0

\* the values the byte after lead byte b may take
Utf8Second(b) ==
  IF b = 224 THEN 160..191
  ELSE IF b = 237 THEN 128..159
  ELSE IF b = 240 THEN 144..191
  ELSE IF b = 244 THEN 128..143
  ELSE 128..191

Utf8WellFormed(b, i, n) ==
  /\ n > 0
  /\ i + n - 1 <= Len(b)
  /\ n > 1 => b[i + 1] \in Utf8Second(b[i])
  /\ \A k \in 2..(n - 1) : b[i + k] \in 128..191

Utf8CodePoint(b, i, n) ==
  IF n = 1 THEN b[i]
  ELSE IF n = 2 THEN (b[i] - 192) * 64 + (b[i + 1] - 128)
  ELSE IF n = 3 THEN (b[i] - 224) * 4096 + (b[i + 1] - 128) * 64 + (b[i + 2] - 128)
  ELSE (b[i] - 240) * 262144 + (b[i + 1] - 128) * 4096 + (b[i + 2] - 128) * 64
       + (b[i + 3] - 128)

RECURSIVE decode_utf8(_, _)
\* UnicodeDecodeError is ok = FALSE
decode_utf8(b, i) ==
  IF i > Len(b) THEN [ok |-> TRUE, text |-> <<>>]
  ELSE LET n == Utf8Length(b[i])
       IN IF ~Utf8WellFormed(b, i, n) THEN [ok |-> FALSE, text |-> <<>>]
          ELSE LET rest == decode_utf8(b, i + n)
               IN IF rest.ok
                  THEN [ok |-> TRUE, text |-> <<Utf8CodePoint(b, i, n)>> \o rest.text]
                  ELSE rest

\* what the decoder returns: a string, or None
NoResult == [found |-> FALSE, text |-> <<>>]
Result(s) == [found |-> TRUE, text |-> s]

cleaned(hex_bytes_value) ==
  LET low == lower(hex_bytes_value)
  IN IF startswith(low, str(<<"0", "x">>)) THEN SubSeq(low, 3, Len(low)) ELSE low

\* variant: no fall back to the hex string when the decoding fails
decode_without_fallback(hex_bytes_value) ==
  IF hex_bytes_value = <<>> THEN NoResult
  ELSE IF LooksLikeCid(hex_bytes_value) THEN Result(hex_bytes_value)
  ELSE LET cleaned_hex == cleaned(hex_bytes_value)
           cid_bytes == unhexlify(cleaned_hex)
           cid_candidate == IF cid_bytes.ok THEN decode_utf8(cid_bytes.bytes, 1)
                            ELSE [ok |-> FALSE, text |-> <<>>]
       IN IF cleaned_hex # <<>> /\ cid_candidate.ok THEN Result(cid_candidate.text)
          ELSE NoResult

decode_hex_bytes_to_cid_string(hex_bytes_value) ==
  IF hex_bytes_value = <<>> THEN NoResult
  ELSE IF LooksLikeCid(hex_bytes_value) THEN Result(hex_bytes_value)
  ELSE LET cleaned_hex == cleaned(hex_bytes_value)
           cid_bytes == unhexlify(cleaned_hex)
           cid_candidate == IF cid_bytes.ok THEN decode_utf8(cid_bytes.bytes, 1)
                            ELSE [ok |-> FALSE, text |-> <<>>]
       IN IF cleaned_hex = <<>> THEN NoResult
          ELSE IF cid_candidate.ok THEN Result(cid_candidate.text)
          ELSE IF /\ is_likely_hex(cleaned_hex)
                  /\ \/ startswith(lower(cleaned_hex), str(<<"f", "0">>))
                     \/ startswith(lower(cleaned_hex), str(<<"0", "1">>))
                     \/ Len(cleaned_hex) > 40
               THEN Result(cleaned_hex)
          ELSE IF LooksLikeCid(hex_bytes_value) THEN Result(hex_bytes_value)
          ELSE NoResult

\* the literal cases of main_test_substrate
hex_of_utf8_cid ==
  str(<<"0", "x", "5", "1", "6", "d", "5", "5", "6", "8", "4", "4", "3", "7", "7",
      "1", "5", "2", "3", "7", "3", "1", "4", "3", "6", "f", "5", "2", "6", "9", "3",
      "5", "6", "d", "7", "3", "3", "4", "7", "8", "5", "0", "3", "1", "4", "5", "3",
      "6", "6", "d", "4", "4", "3", "1", "6", "b", "5", "9", "7", "7", "3", "2", "7",
      "9", "6", "3", "6", "e", "5", "8", "6", "f", "4", "d", "7", "6", "3", "2", "7",
      "3", "5", "4", "3", "8", "7", "1", "3", "9", "4", "e", "4", "3", "4", "d">>)
decoded_cid1 ==
  str(<<"Q", "m", "U", "h", "D", "7", "q", "R", "7", "1", "C", "o", "R", "i", "5",
      "m", "s", "4", "x", "P", "1", "E", "6", "m", "D", "1", "k", "Y", "w", "2", "y",
      "c", "n", "X", "o", "M", "v", "2", "s", "T", "8", "q", "9", "N", "C", "M">>)
base16_cidv1 ==
  str(<<"f", "0", "1", "7", "0", "1", "2", "2", "0", "2", "c", "2", "6", "b", "4",
      "6", "b", "6", "8", "f", "f", "c", "6", "8", "f", "f", "9", "9", "b", "4", "5",
      "3", "c", "1", "d", "3", "0", "4", "1", "3", "4", "1", "3", "4", "2", "2", "d",
      "7", "0", "6", "4", "8", "3", "b", "f", "a", "0", "f", "9", "8", "a", "5", "e",
      "8", "8", "6", "2", "6", "6", "e", "7", "a", "e">>)
direct_cid_str ==
  str(<<"Q", "m", "X", "g", "Z", "A", "U", "c", "4", "p", "B", "8", "9", "n", "N",
      "j", "V", "8", "x", "7", "h", "6", "X", "1", "Y", "s", "v", "C", "n", "K", "q",
      "j", "G", "s", "c", "H", "p", "Y", "P", "S", "U", "x", "Q", "U", "Y", "4">>)
invalid_hex == str(<<"0", "x", "T", "h", "i", "s", "I", "s", "N", "o", "t", "H", "e", "x">>)
non_utf8_hex == str(<<"0", "x", "f", "f", "f", "e">>)

\* inputs: a head, then one character repeated
DecoderHeads ==
  {<<>>, <<"0", "x">>, <<"0", "X">>, <<"Q", "m">>, <<"b", "a", "f", "y">>,
   <<"b", "a", "f", "k">>, <<"k">>, <<"f", "0">>, <<"0", "1">>, <<"0", "x", "F", "0">>,
   <<"0", "x", "0", "1">>, <<"c", "3", "a", "9">>, <<"0", "x", "e", "2", "8", "2", "a", "c">>}
DecoderFill == {"4", "a", "E", "z"}
DecoderLengths == (0..4) \cup (36..52)
Repeat(c, n) == [i \in 1..n |-> c]
DecoderInputs ==
  {hex_of_utf8_cid, base16_cidv1, direct_cid_str, invalid_hex, non_utf8_hex}
  \cup {str(h) \o Repeat(ord(c), n) : h \in DecoderHeads, c \in DecoderFill,
        n \in DecoderLengths}

NotDecoded == [value |-> <<>>, result |-> NoResult, done |-> FALSE]

Env == <<chain, sweep, MY_IPFS_NODE_ID, decoded, scheduled>>

\* variant: startup() goes on without an identity
ResolveIdentityGoesOn ==
  /\ pc = "start"
  /\ \E ok \in BOOLEAN :
        /\ ok \/ envBudget.fail > 0
        /\ MY_IPFS_NODE_ID' = IF ok THEN "node" ELSE None
        /\ pc' = "init_db"
        /\ envBudget' = [envBudget EXCEPT !.fail = IF ok THEN @ ELSE @ - 1]
  /\ UNCHANGED <<pins, prof, unp, ipfs, reportFile, gc_counter, trace, raised, calls,
                 chain, sweep, decoded, scheduled>>

\* startup(): get_self_ipfs_node_id; without an identity the service stops
ResolveIdentity ==
  /\ pc = "start"
  /\ \E ok \in BOOLEAN :
        /\ ok \/ envBudget.fail > 0
        /\ MY_IPFS_NODE_ID' = IF ok THEN "node" ELSE None
        /\ pc' = IF ok THEN "init_db" ELSE "halted"
        /\ envBudget' = [envBudget EXCEPT !.fail = IF ok THEN @ ELSE @ - 1]
  /\ UNCHANGED <<pins, prof, unp, ipfs, reportFile, gc_counter, trace, raised, calls,
                 chain, sweep, decoded, scheduled>>

\* initialize_database raises its error again: startup() ends
InitializeDatabase ==
  /\ pc = "init_db"
  /\ \E F \in Faults({"init"}) :
        /\ pc' = IF "init" \in F THEN "halted" ELSE "cleanup"
        /\ raised' = IF "init" \in F THEN "aiosqlite.Error" ELSE None
        /\ calls' = [NoCalls EXCEPT !.step = "init_db", !.faults = F]
        /\ envBudget' = [envBudget EXCEPT !.store = IF F = {} THEN @ ELSE @ - 1]
  /\ UNCHANGED <<pins, prof, unp, ipfs, reportFile, gc_counter, trace, Env>>

\* variant: a failure inside the aggressive cleanup ends startup()
CleanupFailureEndsStartup ==
  /\ pc = "cleanup"
  /\ \E up \in BOOLEAN, listOk \in BOOLEAN, pinOk \in BOOLEAN, jsonOk \in BOOLEAN,
         okUnpin \in SUBSET ipfs :
        LET w == StartupCleanup(Asked("cleanup", up, {}), listOk,
                                get_miner_profile_cid(up),
                                IF pinOk THEN CIDS ELSE {}, jsonOk, okUnpin)
        IN /\ Apply(w)
           /\ pc' = IF w.calls.fails > 0 THEN "halted" ELSE "startup_sync"
  /\ UNCHANGED <<reportFile, gc_counter, trace, Env>>

Cleanup ==
  /\ pc = "cleanup"
  /\ \E up \in BOOLEAN, listOk \in BOOLEAN, pinOk \in BOOLEAN, jsonOk \in BOOLEAN,
         okUnpin \in SUBSET ipfs :
        Apply(StartupCleanup(Asked("cleanup", up, {}), listOk,
                             get_miner_profile_cid(up),
                             IF pinOk THEN CIDS ELSE {}, jsonOk, okUnpin))
  /\ pc' = "startup_sync"
  /\ UNCHANGED <<reportFile, gc_counter, trace, Env>>

\* what a profile sync leaves scheduled for removal: the content CIDs it has
\* set to unpin_requested (lines 129, 180) are added, and the ones its diff
\* found in cids_from_profile (lines 158-165) are no longer scheduled
Scheduled(w, on_chain, fetched) ==
  LET diffed == w.calls.path = "changed" /\ w.raised = None /\ fetched
      found == IF diffed THEN ProfileContent(on_chain) ELSE {}
      marked == {c \in Content : /\ pins[c].status # "unpin_requested"
                                 /\ w.pins[c].status = "unpin_requested"}
  IN (scheduled \ found) \cup marked

\* an error raised by the startup sync leaves startup(): the process ends
StartupSync ==
  /\ pc = "startup_sync"
  /\ \E up \in BOOLEAN, pinOk \in BOOLEAN, jsonOk \in BOOLEAN,
         F \in Faults({"get_active", "set_active", "read_status", "add_pin",
                       "update_status", "update_profile"}) :
        LET on_chain == get_miner_profile_cid(up)
            w == fetch_and_process_profile(Asked("startup_sync", up, F), TRUE, on_chain,
                                           IF pinOk THEN CIDS ELSE {}, jsonOk, F)
        IN /\ Apply(w)
           /\ pc' = IF w.raised # None THEN "halted" ELSE "startup_gc"
           /\ scheduled' = Scheduled(w, on_chain, pinOk /\ jsonOk)
  /\ UNCHANGED <<reportFile, gc_counter, trace, chain, sweep, MY_IPFS_NODE_ID, decoded>>

\* the initial garbage collection, then main_loop(), which returns at once
\* when MY_IPFS_NODE_ID is not set (lines 356-361)
StartupGC ==
  /\ pc = "startup_gc"
  /\ pc' = IF MY_IPFS_NODE_ID = None THEN "halted" ELSE "head"
  /\ calls' = [NoCalls EXCEPT !.step = "startup_gc", !.gc = TRUE]
  /\ UNCHANGED <<pins, prof, unp, ipfs, reportFile, gc_counter, trace, raised,
                 envBudget, Env>>

\* top of the while loop: get_current_block_number (logged only)
LoopHead ==
  /\ pc = "head"
  /\ pc' = "sync"
  /\ UNCHANGED <<pins, prof, unp, ipfs, reportFile, gc_counter, trace, raised, calls,
                 envBudget, Env>>

Sync ==
  /\ pc = "sync"
  /\ \E up \in BOOLEAN, pinOk \in BOOLEAN, jsonOk \in BOOLEAN,
         F \in Faults({"get_active", "set_active", "read_status", "add_pin",
                       "update_status", "update_profile"}) :
        LET on_chain == get_miner_profile_cid(up)
            w == fetch_and_process_profile(Asked("sync", up, F), FALSE, on_chain,
                                           IF pinOk THEN CIDS ELSE {}, jsonOk, F)
        IN /\ Advance("sync", w)
           /\ scheduled' = Scheduled(w, on_chain, pinOk /\ jsonOk)
  /\ UNCHANGED <<reportFile, gc_counter, chain, sweep, MY_IPFS_NODE_ID, decoded>>

Pending ==
  /\ pc = "pending"
  /\ \E okPin \in SUBSET {c \in CIDS : pins[c].status = "pending_pin"},
         F \in Faults({"read_status", "update_status", "remove", "add_unpinnable"}) :
        Advance("pending", process_pending_pins(World("pending", None, F), okPin, F))
  /\ UNCHANGED <<reportFile, gc_counter, Env>>

Failed ==
  /\ pc = "failed"
  /\ \E okPin \in SUBSET {c \in CIDS : pins[c].status = "failed_pin"},
         F \in Faults({"read_status", "update_status", "remove", "add_unpinnable"}) :
        Advance("failed", process_failed_pins(World("failed", None, F), okPin, F))
  /\ UNCHANGED <<reportFile, gc_counter, Env>>

Unpin ==
  /\ pc = "unpin"
  /\ \E okUnpin \in SUBSET {c \in CIDS : pins[c].status = "unpin_requested"},
         F \in Faults({"read_status", "update_status", "remove"}) :
        Advance("unpin", process_unpin_requests(World("unpin", None, F), okUnpin, F))
  /\ UNCHANGED <<reportFile, gc_counter, Env>>

Reconcile ==
  /\ pc = "reconcile"
  /\ \E listOk \in BOOLEAN,
         F \in Faults({"get_pinned", "get_active", "add_pin", "update_status",
                       "get_details", "remove", "add_unpinnable"}) :
        LET listed == IF listOk THEN ipfs ELSE {}
            desired == get_all_pinned_cids_from_db(pins, "get_pinned" \in F)
        IN \E okPin \in SUBSET (desired \ listed), okUnpin \in SUBSET (listed \ desired) :
             Advance("reconcile",
                     reconcile_ipfs_pins(World("reconcile", None, F), listOk, okPin, okUnpin, F))
  /\ UNCHANGED <<reportFile, gc_counter, Env>>

Report ==
  /\ pc = "report"
  /\ \E write \in {"ok", "refused", "truncated"},
         F \in Faults({"get_report", "mark_reported"}) :
        LET r == report_unpinnable_cids(unp, reportFile, write, F)
        IN /\ r.fails <= envBudget.fail
           /\ envBudget' = [envBudget EXCEPT !.fail = @ - r.fails,
                                             !.store = IF F = {} THEN @ ELSE @ - 1]
           /\ unp' = r.unp
           /\ reportFile' = r.file
           /\ calls' = [NoCalls EXCEPT !.step = "report", !.skipped = r.skipped,
                                       !.fails = r.fails, !.faults = F]
           /\ raised' = r.raised
           /\ pc' = IF r.raised # None THEN AfterError ELSE NextStep("report")
  /\ trace' = Append(trace, "report")
  /\ UNCHANGED <<pins, prof, ipfs, gc_counter, Env>>

\* variant: the counter is compared with > instead of >=
GCTickLate ==
  /\ pc = "gc"
  /\ LET n == gc_counter + 1
     IN IF n > GC_TRIGGER_INTERVAL_LOOPS
        THEN gc_counter' = 0 /\ calls' = [NoCalls EXCEPT !.step = "gc", !.gc = TRUE]
        ELSE gc_counter' = n /\ calls' = [NoCalls EXCEPT !.step = "gc"]
  /\ pc' = NextStep("gc")
  /\ trace' = Append(trace, "gc")
  /\ raised' = None
  /\ UNCHANGED <<pins, prof, unp, ipfs, reportFile, envBudget, Env>>

\* variant: a failed garbage collection keeps the counter
GCTickKeepsCounterOnFailure ==
  /\ pc = "gc"
  /\ \E ok \in BOOLEAN :
        LET n == gc_counter + 1
            due == n >= GC_TRIGGER_INTERVAL_LOOPS
            failed == due /\ ~ok
        IN /\ due \/ ok
           /\ failed => envBudget.fail > 0
           /\ gc_counter' = IF due /\ ok THEN 0 ELSE n
           /\ calls' = [NoCalls EXCEPT !.step = "gc", !.gc = due,
                                       !.fails = IF failed THEN 1 ELSE 0]
           /\ envBudget' = [envBudget EXCEPT !.fail = IF failed THEN @ - 1 ELSE @]
  /\ pc' = NextStep("gc")
  /\ trace' = Append(trace, "gc")
  /\ raised' = None
  /\ UNCHANGED <<pins, prof, unp, ipfs, reportFile, Env>>

\* lines 399-403; trigger_garbage_collection returns None on failure, never raises
GCTick ==
  /\ pc = "gc"
  /\ \E ok \in BOOLEAN :
        LET n == gc_counter + 1
            due == n >= GC_TRIGGER_INTERVAL_LOOPS
            failed == due /\ ~ok
        IN /\ due \/ ok
           /\ failed => envBudget.fail > 0
           /\ gc_counter' = IF due THEN 0 ELSE n
           /\ calls' = [NoCalls EXCEPT !.step = "gc", !.gc = due,
                                       !.fails = IF failed THEN 1 ELSE 0]
           /\ envBudget' = [envBudget EXCEPT !.fail = IF failed THEN @ - 1 ELSE @]
  /\ pc' = NextStep("gc")
  /\ trace' = Append(trace, "gc")
  /\ raised' = None
  /\ UNCHANGED <<pins, prof, unp, ipfs, reportFile, Env>>

\* asyncio.sleep(POLLING_INTERVAL_SECONDS), then the next iteration
Sleep ==
  /\ pc = "sleep"
  /\ pc' = "head"
  /\ trace' = <<>>
  /\ raised' = None
  /\ calls' = NoCalls
  /\ UNCHANGED <<pins, prof, unp, ipfs, reportFile, gc_counter, envBudget, Env>>

\* ------------------------------------------------------------------------
\* Environment, between two poll cycles (at the top of the loop)
\* ------------------------------------------------------------------------
ChainChange ==
  /\ pc = "head"
  /\ envBudget.chain > 0
  /\ \E v \in (Profiles \cup {None}) \ {chain} : chain' = v
  /\ envBudget' = [envBudget EXCEPT !.chain = @ - 1]
  /\ UNCHANGED <<pc, pins, prof, unp, ipfs, reportFile, gc_counter,
                 sweep, MY_IPFS_NODE_ID, trace, raised, calls, decoded, scheduled>>

FileEvent ==
  /\ pc = "head"
  /\ envBudget.file > 0
  /\ \E k \in {"absent", "garbage", "notlist", "nondict"} :
        reportFile' = [kind |-> k, entries |-> <<>>]
  /\ envBudget' = [envBudget EXCEPT !.file = @ - 1]
  /\ UNCHANGED <<pc, pins, prof, unp, ipfs, chain, gc_counter,
                 sweep, MY_IPFS_NODE_ID, trace, raised, calls, decoded, scheduled>>

\* what the daemon may hold when the service starts
InitialPins == {{}, {"P2", "c1"}}

InitCommon ==
  /\ pc = "start"
  /\ pins = [c \in CIDS |-> NoPin]
  /\ prof = [p \in Profiles |-> NoProfile]
  /\ unp = [c \in CIDS |-> NoUnpinnable]
  /\ ipfs \in InitialPins
  /\ chain \in Profiles \cup {None}
  /\ reportFile = NoFile
  /\ gc_counter = 0
  /\ MY_IPFS_NODE_ID = None
  /\ sweep = [D |-> {}, okRuns |-> 0]
  /\ trace = <<>>
  /\ raised = None
  /\ calls = NoCalls
  /\ decoded = NotDecoded
  /\ scheduled = {c \in Content : pins[c].status = "unpin_requested"}

Budget(fail, store) ==
  [chain |-> MaxChainChanges, file |-> MaxFileEvents, fail |-> fail, store |-> store]

Init == InitCommon /\ envBudget = Budget(MaxFailures, 0)

\* the same service, with store operations that may hit aiosqlite.Error
InitStoreFault == InitCommon /\ envBudget = Budget(MaxFailuresUnderStoreFault, MaxStoreFaults)

\* ------------------------------------------------------------------------
\* reconcile_ipfs_pins on its own, run again and again on a store and a
\* daemon in any state the service can leave them in.  sweep.D is the
\* intended set (pinned or pending_pin) before the first run; sweep.okRuns
\* counts the latest runs in a row in which no backend call failed.
\* ------------------------------------------------------------------------
SweepRows ==
  {NoPin,
   [status |-> "pending_pin", retry_count |-> 0],
   [status |-> "pinned", retry_count |-> 0],
   [status |-> "pinned", retry_count |-> MAX_PIN_RETRIES - 1],
   [status |-> "failed_pin", retry_count |-> MAX_PIN_RETRIES - 1],
   [status |-> "unpin_requested", retry_count |-> 0]}

InitSweep ==
  /\ pc = "sweeping"
  /\ prof = [p \in Profiles |->
               IF p = "P1"
               THEN [row |-> TRUE, is_active |-> TRUE, pinned_locally |-> TRUE]
               ELSE NoProfile]
  /\ pins \in [CIDS -> SweepRows]
  /\ pins["P2"] = NoPin
  /\ pins["P1"] \in {NoPin, [status |-> "pinned", retry_count |-> 0]}
  /\ unp = [c \in CIDS |-> NoUnpinnable]
  /\ ipfs \in SUBSET (CIDS \ {"P2"})
  /\ chain = "P1"
  /\ reportFile = NoFile
  /\ gc_counter = 0
  /\ MY_IPFS_NODE_ID = "node"
  /\ sweep = [D |-> get_all_pinned_cids_from_db(pins, FALSE), okRuns |-> 0]
  /\ envBudget = [chain |-> 0, file |-> 0, fail |-> MaxSweepFailures, store |-> 0]
  /\ trace = <<>>
  /\ raised = None
  /\ calls = NoCalls
  /\ decoded = NotDecoded
  /\ scheduled = {c \in Content : pins[c].status = "unpin_requested"}

SweepRun ==
  /\ pc = "sweeping"
  /\ \E listOk \in BOOLEAN, F \in Faults({"get_pinned", "get_active"}) :
        LET listed == IF listOk THEN ipfs ELSE {}
            desired == get_all_pinned_cids_from_db(pins, "get_pinned" \in F)
        IN \E okPin \in SUBSET (desired \ listed), okUnpin \in SUBSET (listed \ desired) :
             LET w == reconcile_ipfs_pins(World("reconcile", None, F), listOk, okPin,
                                          okUnpin, F)
             IN /\ Apply(w)
                /\ sweep' = [sweep EXCEPT !.okRuns =
                               IF w.calls.fails > 0 THEN 0
                               ELSE IF @ < MAX_PIN_RETRIES THEN @ + 1 ELSE @]
  /\ UNCHANGED <<pc, chain, reportFile, gc_counter, MY_IPFS_NODE_ID, trace, decoded, scheduled>>

\* ------------------------------------------------------------------------
\* Restart after a crash.  The process starts again on the store, the daemon
\* and the report file that an earlier run with the same on-chain profile
\* left behind when it stopped somewhere in a cycle; from the restart on
\* the chain and the daemon answer every request.
\* ------------------------------------------------------------------------

\* what the earlier run can have left for a CID of the profile's content:
\* its PinRecord and its UnpinnableRecord
CrashedContent ==
  {<<NoPin, NoUnpinnable>>,
   <<NoPin, [row |-> TRUE, reported |-> FALSE,
             reason |-> <<"Failed after retries", MAX_PIN_RETRIES>>]>>,
   <<[status |-> "pending_pin", retry_count |-> 0], NoUnpinnable>>,
   <<[status |-> "pinned", retry_count |-> 0], NoUnpinnable>>,
   <<[status |-> "pinned", retry_count |-> MAX_PIN_RETRIES - 1], NoUnpinnable>>}
    \cup {<<[status |-> "failed_pin", retry_count |-> r], NoUnpinnable>> :
            r \in 1..(MAX_PIN_RETRIES - 1)}

\* ... for the profile document: its ProfileRecord and its PinRecord
CrashedProfile ==
  {NoProfile,
   [row |-> TRUE, is_active |-> FALSE, pinned_locally |-> FALSE],
   [row |-> TRUE, is_active |-> TRUE, pinned_locally |-> FALSE],
   [row |-> TRUE, is_active |-> TRUE, pinned_locally |-> TRUE]}
    \X {NoPin,
        [status |-> "pinned", retry_count |-> 0],
        [status |-> "failed_pin", retry_count |-> 1]}

InitRecovery ==
  /\ pc = "start"
  /\ chain \in Profiles
  /\ \E left \in [ProfileContent(chain) -> CrashedContent], doc \in CrashedProfile :
        /\ prof = [p \in Profiles |-> IF p = chain THEN doc[1] ELSE NoProfile]
        /\ pins = [c \in CIDS |-> IF c = chain THEN doc[2]
                                   ELSE IF c \in ProfileContent(chain) THEN left[c][1]
                                   ELSE NoPin]
        /\ unp = [c \in CIDS |-> IF c \in ProfileContent(chain) THEN left[c][2]
                                  ELSE NoUnpinnable]
  /\ ipfs \in {{}, {chain}, ProfileContent(chain), CIDS \ {chain}, CIDS}
  /\ reportFile = NoFile
  /\ gc_counter = 0
  /\ MY_IPFS_NODE_ID = None
  /\ sweep = [D |-> {}, okRuns |-> 0]
  /\ envBudget = [chain |-> 0, file |-> 0, fail |-> 0, store |-> 0]
  /\ trace = <<>>
  /\ raised = None
  /\ calls = NoCalls
  /\ decoded = NotDecoded
  /\ scheduled = {c \in Content : pins[c].status = "unpin_requested"}

NextRecovery ==
  \/ ResolveIdentity \/ InitializeDatabase \/ Cleanup \/ StartupSync \/ StartupGC
  \/ LoopHead \/ Sync \/ Pending \/ Failed \/ Unpin \/ Reconcile \/ Report
  \/ GCTick \/ Sleep

\* ------------------------------------------------------------------------
\* Restart on a store an earlier run left.  The earlier run served profile
\* q and was stopped at any point of a poll cycle, so a content row may be in
\* any status; the chain may point at another profile by now, and the earlier
\* run may have been configured with a larger MAX_PIN_RETRIES.
\* ------------------------------------------------------------------------
LeftContent ==
  {NoPin,
   [status |-> "pending_pin", retry_count |-> 0],
   [status |-> "pinned", retry_count |-> 0],
   [status |-> "unpin_requested", retry_count |-> 0]}
  \cup {[status |-> "failed_pin", retry_count |-> r] : r \in 1..(MAX_PIN_RETRIES + 1)}

InitRestart ==
  /\ pc = "start"
  /\ chain \in Profiles
  /\ \E q \in Profiles, left \in [Content -> LeftContent] :
        /\ prof = [p \in Profiles |->
                     IF p = q
                     THEN [row |-> TRUE, is_active |-> TRUE, pinned_locally |-> TRUE]
                     ELSE NoProfile]
        /\ pins = [c \in CIDS |-> IF c \in Content THEN left[c] ELSE NoPin]
        /\ ipfs = {q} \cup {c \in Content : left[c].status \in {"pinned", "unpin_requested"}}
  /\ unp = [c \in CIDS |-> NoUnpinnable]
  /\ reportFile = NoFile
  /\ gc_counter = 0
  /\ MY_IPFS_NODE_ID = None
  /\ sweep = [D |-> {}, okRuns |-> 0]
  /\ envBudget = [chain |-> 0, file |-> 0, fail |-> 0, store |-> 0]
  /\ trace = <<>>
  /\ raised = None
  /\ calls = NoCalls
  /\ decoded = NotDecoded
  /\ scheduled = {c \in Content : pins[c].status = "unpin_requested"}

SpecRestart == InitRestart /\ [][NextRecovery]_vars

\* ------------------------------------------------------------------------
\* The table unpinnable_cids on its own: cid is its primary key, so the table
\* is a function of the CID.  The table holds any rows; add_unpinnable_cid
\* is applied with any CID and reason, and a flush marks the unreported rows.
\* calls.arg is <<cid, reason, the row the CID had before>>.
\* ------------------------------------------------------------------------
UnpinnableReasons ==
  {<<"Failed after retries", MAX_PIN_RETRIES>>,
   <<"Reached max retries", MAX_PIN_RETRIES>>,
   <<"Failed after retries (discovered during reconciliation)", MAX_PIN_RETRIES>>}

UnpinnableRows ==
  {NoUnpinnable}
    \cup {[row |-> TRUE, reported |-> r, reason |-> x] : r \in BOOLEAN, x \in UnpinnableReasons}

InitUnpinnable ==
  /\ pc = "store"
  /\ unp \in [CIDS -> UnpinnableRows]
  /\ \A c \in Profiles : unp[c] = NoUnpinnable
  /\ pins = [c \in CIDS |-> NoPin]
  /\ prof = [p \in Profiles |-> NoProfile]
  /\ ipfs = {}
  /\ chain = None
  /\ reportFile = NoFile
  /\ gc_counter = 0
  /\ MY_IPFS_NODE_ID = None
  /\ sweep = [D |-> {}, okRuns |-> 0]
  /\ envBudget = [chain |-> 0, file |-> 0, fail |-> 0, store |-> 0]
  /\ trace = <<>>
  /\ raised = None
  /\ calls = NoCalls
  /\ decoded = NotDecoded
  /\ scheduled = {c \in Content : pins[c].status = "unpin_requested"}

AddUnpinnable ==
  /\ pc = "store"
  /\ \E cid \in Content, reason \in UnpinnableReasons :
        /\ unp' = add_unpinnable_cid(unp, cid, reason, FALSE)
        /\ calls' = [NoCalls EXCEPT !.step = "add_unpinnable_cid",
                                    !.arg = <<cid, reason, unp[cid]>>]
  /\ UNCHANGED <<pc, pins, prof, ipfs, chain, reportFile, gc_counter, MY_IPFS_NODE_ID,
                 envBudget, sweep, trace, raised, decoded, scheduled>>

MarkReported ==
  /\ pc = "store"
  /\ unp' = mark_unpinnable_cids_as_reported(
              unp, get_unpinnable_cids_to_report(unp, FALSE), FALSE)
  /\ calls' = [NoCalls EXCEPT !.step = "mark_unpinnable_cids_as_reported"]
  /\ UNCHANGED <<pc, pins, prof, ipfs, chain, reportFile, gc_counter, MY_IPFS_NODE_ID,
                 envBudget, sweep, trace, raised, decoded, scheduled>>

SpecUnpinnable == InitUnpinnable /\ [][AddUnpinnable \/ MarkReported]_vars

\* ------------------------------------------------------------------------
\* The decoder on its own: one value arrives, the decoder is applied to it
\* ------------------------------------------------------------------------
InitDecode ==
  /\ pc = "decode"
  /\ decoded \in {[value |-> v, result |-> NoResult, done |-> FALSE] : v \in DecoderInputs}
  /\ scheduled = {}
  /\ pins = [c \in CIDS |-> NoPin]
  /\ prof = [p \in Profiles |-> NoProfile]
  /\ unp = [c \in CIDS |-> NoUnpinnable]
  /\ ipfs = {}
  /\ chain = None
  /\ reportFile = NoFile
  /\ gc_counter = 0
  /\ MY_IPFS_NODE_ID = None
  /\ sweep = [D |-> {}, okRuns |-> 0]
  /\ envBudget = [chain |-> 0, file |-> 0, fail |-> 0, store |-> 0]
  /\ trace = <<>>
  /\ raised = None
  /\ calls = NoCalls

Decode ==
  /\ pc = "decode"
  /\ decoded' = [value |-> decoded.value,
                 result |-> decode_hex_bytes_to_cid_string(decoded.value),
                 done |-> TRUE]
  /\ pc' = "decoded"
  /\ UNCHANGED <<pins, prof, unp, ipfs, chain, reportFile, gc_counter, MY_IPFS_NODE_ID,
                 envBudget, sweep, trace, raised, calls, scheduled>>

\* "".join(chr(val) for val in file_hash_array): chr raises ValueError for a
\* value outside range(0x110000)
join_chr(file_hash_array) ==
  IF \A i \in 1..Len(file_hash_array) : file_hash_array[i] \in 0..1114111
  THEN [ok |-> TRUE, text |-> [i \in 1..Len(file_hash_array) |-> file_hash_array[i]]]
  ELSE [ok |-> FALSE, text |-> <<>>]

\* miner_service.py lines 42-85: both branches of the CID pattern test return
\* cid_candidate, and both branches of the except clause return hex_string
decode_profile_file_hash_to_cid(file_hash_array) ==
  IF file_hash_array = <<>> THEN NoResult
  ELSE LET hex_string == join_chr(file_hash_array)
           cid_bytes == unhexlify(hex_string.text)
           cid_candidate == IF cid_bytes.ok THEN decode_utf8(cid_bytes.bytes, 1)
                            ELSE [ok |-> FALSE, text |-> <<>>]
       IN IF ~hex_string.ok THEN NoResult
          ELSE IF cid_candidate.ok THEN Result(cid_candidate.text)
          ELSE Result(hex_string.text)

\* lines 158-165: the decoded file_hash values of the profile's items
cids_from_profile(file_hashes) ==
  {decode_profile_file_hash_to_cid(h).text :
     h \in {x \in file_hashes : decode_profile_file_hash_to_cid(x).text # <<>>}}

\* file_hash arrays: the decoder inputs as character codes, and one array
\* with a value that is no character code
FileHashArrays == DecoderInputs \cup {<<1114112>>}

InitDecodeProfile ==
  /\ pc = "decode"
  /\ decoded \in {[value |-> v, result |-> NoResult, done |-> FALSE] : v \in FileHashArrays}
  /\ scheduled = {}
  /\ pins = [c \in CIDS |-> NoPin]
  /\ prof = [p \in Profiles |-> NoProfile]
  /\ unp = [c \in CIDS |-> NoUnpinnable]
  /\ ipfs = {}
  /\ chain = None
  /\ reportFile = NoFile
  /\ gc_counter = 0
  /\ MY_IPFS_NODE_ID = None
  /\ sweep = [D |-> {}, okRuns |-> 0]
  /\ envBudget = [chain |-> 0, file |-> 0, fail |-> 0, store |-> 0]
  /\ trace = <<>>
  /\ raised = None
  /\ calls = NoCalls

DecodeProfile ==
  /\ pc = "decode"
  /\ decoded' = [value |-> decoded.value,
                 result |-> decode_profile_file_hash_to_cid(decoded.value),
                 done |-> TRUE]
  /\ pc' = "profile_decoded"
  /\ UNCHANGED <<pins, prof, unp, ipfs, chain, reportFile, gc_counter, MY_IPFS_NODE_ID,
                 envBudget, sweep, trace, raised, calls, scheduled>>

SpecDecodeProfile == InitDecodeProfile /\ [][DecodeProfile]_vars

SpecDecode == InitDecode /\ [][Decode]_vars

Next ==
  \/ ResolveIdentity \/ InitializeDatabase \/ Cleanup \/ StartupSync \/ StartupGC
  \/ LoopHead \/ Sync \/ Pending \/ Failed \/ Unpin \/ Reconcile \/ Report
  \/ GCTick \/ Sleep
  \/ ChainChange \/ FileEvent

Spec == Init /\ [][Next]_vars

SpecStoreFault == InitStoreFault /\ [][Next]_vars

SpecSweep == InitSweep /\ [][SweepRun]_vars

\* the restarted process keeps running: asyncio runs startup() and the loop
SpecRecovery == InitRecovery /\ [][NextRecovery]_vars /\ WF_vars(NextRecovery)

\* ------------------------------------------------------------------------
\* The service from its first start, for the properties of the kind
\* "eventually": the chain profile changes at most MaxChainChanges times, at
\* most MaxFairFailures requests fail, no store operation fails and nobody
\* touches the report file, so from some cycle on the profile is fixed and
\* every request is answered.  main_loop never stops taking steps.
\* ------------------------------------------------------------------------
InitFair ==
  /\ InitCommon
  /\ envBudget = [chain |-> MaxChainChanges, file |-> 0, fail |-> MaxFairFailures,
                  store |-> 0]

NextFair ==
  \/ ResolveIdentity \/ InitializeDatabase \/ Cleanup \/ StartupSync \/ StartupGC
  \/ LoopHead \/ Sync \/ Pending \/ Failed \/ Unpin \/ Reconcile \/ Report
  \/ GCTick \/ Sleep
  \/ ChainChange

SpecFair == InitFair /\ [][NextFair]_vars /\ WF_vars(NextFair)

\* ------------------------------------------------------------------------
\* Properties
\* ------------------------------------------------------------------------

CycleSteps == {"sync", "pending", "failed", "unpin", "reconcile", "report", "gc"}

\* C1 (single active profile): in every reachable state at most one
\* ProfileRecord is active, whatever sequence of activations (with a profile
\* CID or with None) has run.
C1_SingleActiveProfile == Cardinality(ActiveRows(prof)) <= 1

\* a second profile was activated after a first one: the first row is still
\* there, inactive
C1_Witness ==
  \E p, q \in Profiles :
    p # q /\ prof[p].row /\ prof[p].is_active /\ prof[q].row /\ ~prof[q].is_active

\* C2 (retry bound): a pin that fails in process_pending_pins,
\* process_failed_pins or reconcile_ipfs_pins for a CID whose PinRecord has
\* retry_count = MAX_PIN_RETRIES - 1 ends, in that same step, with the
\* PinRecord deleted and an UnpinnableRecord with reported = false.
C2_RetryBound ==
  [][\A c \in CIDS :
       (/\ pc \in {"pending", "failed", "reconcile"}
        /\ calls'.step = pc
        /\ c \in calls'.pinFail
        /\ pins[c] # NoPin
        /\ pins[c].retry_count = MAX_PIN_RETRIES - 1)
       => (pins'[c] = NoPin /\ unp'[c].row /\ ~unp'[c].reported)]_vars

\* a pin has just failed in one of the three steps and its CID was demoted
C2_Witness ==
  /\ calls.step \in {"pending", "failed", "reconcile"}
  /\ \E c \in calls.pinFail : pins[c] = NoPin /\ unp[c].row /\ ~unp[c].reported

\* C3 (teardown): a profile sync that observes no on-chain profile while a
\* profile is active leaves no active ProfileRecord and has moved every
\* PinRecord that was pending_pin, pinned or failed_pin to unpin_requested.
C3_Teardown ==
  [][(/\ pc = "sync"
      /\ calls'.step = "sync"
      /\ calls'.seen = None
      /\ ActiveRows(prof) # {})
     => (/\ ActiveRows(prof') = {}
         /\ \A c \in CIDS :
              pins[c].status \in {"pending_pin", "pinned", "failed_pin"}
                => pins'[c].status = "unpin_requested")]_vars

\* C4 (idempotence): a profile sync of the poll cycle that observes the
\* profile CID that is already active creates, deletes and changes no
\* content PinRecord; only pinned_locally of the active profile and the
\* status of the profile document's own PinRecord may change.
C4_Idempotent ==
  [][(/\ pc = "sync"
      /\ calls'.step = "sync"
      /\ calls'.seen # None
      /\ calls'.seen \in ActiveRows(prof))
     => (/\ \A c \in CIDS \ {calls'.seen} : pins'[c] = pins[c]
         /\ (pins'[calls'.seen] = NoPin) <=> (pins[calls'.seen] = NoPin)
         /\ pins'[calls'.seen].retry_count = pins[calls'.seen].retry_count
         /\ unp' = unp
         /\ \A p \in Profiles :
              /\ prof'[p].row = prof[p].row
              /\ prof'[p].is_active = prof[p].is_active
              /\ p # calls'.seen => prof'[p] = prof[p])]_vars

\* the unchanged-profile path has just pinned the profile document and set
\* pinned_locally, while the store holds content PinRecords
C4_Witness ==
  /\ calls.step = "sync"
  /\ calls.path = "unchanged"
  /\ calls.pin = {calls.seen}
  /\ calls.pinFail = {}
  /\ prof[calls.seen].pinned_locally
  /\ \E c \in Content : pins[c] # NoPin

\* C5 (convergence), as stated: once MAX_PIN_RETRIES runs of
\* reconcile_ipfs_pins in a row have seen no backend failure, the daemon
\* pins exactly the set D that was intended before the first run (the
\* active profile document, which the sweep protects, may be pinned too).
C5_ConvergesToD ==
  sweep.okRuns >= MAX_PIN_RETRIES
    => (sweep.D \subseteq ipfs /\ ipfs \subseteq sweep.D \cup ActiveRows(prof))

\* C5, as the code has it: after a run of reconcile_ipfs_pins in which no
\* backend call failed, the daemon pins exactly the CIDs the store now
\* intends (pinned or pending_pin); that set is D without the CIDs whose pin
\* failed in a run (each is failed_pin or unpinnable and the sweep does not
\* try it again), plus the active profile document if the sweep registered it.
C5_ConvergesToStore ==
  LET desired == get_all_pinned_cids_from_db(pins, FALSE)
  IN /\ sweep.okRuns >= 1 => ipfs = desired
     /\ pc = "sweeping" =>
          /\ desired \subseteq sweep.D \cup ActiveRows(prof)
          /\ \A c \in sweep.D \ desired :
               pins[c].status = "failed_pin" \/ (pins[c] = NoPin /\ unp[c].row)

\* a CID of D has left the intended set after a failed pin, and a later
\* run without failures has made the daemon match what is left
C5_Witness ==
  /\ pc = "sweeping"
  /\ sweep.okRuns >= 1
  /\ sweep.D \ get_all_pinned_cids_from_db(pins, FALSE) # {}
  /\ ipfs = get_all_pinned_cids_from_db(pins, FALSE)
  /\ ipfs # {}

\* C6 (terminal failure), as stated: no step makes a pin attempt for a CID
\* that has an UnpinnableRecord.
C6_NoAttemptAfterDemotion ==
  [][\A c \in CIDS : (calls'.step = pc /\ unp[c].row) => c \notin calls'.pin]_vars

\* C6, as the code has it: a demotion deletes the content CID's PinRecord,
\* and while a demoted content CID has no PinRecord no step tries to pin it;
\* only a changed-profile (or startup) sync whose profile lists the CID
\* gives it a new pending_pin PinRecord, after which it is tried again.
C6_DemotedUntilRegisteredAgain ==
  [][\A c \in Content :
       /\ (~unp[c].row /\ unp'[c].row) => pins'[c] = NoPin
       /\ (calls'.step = pc /\ unp[c].row /\ pins[c] = NoPin)
          => (/\ c \notin calls'.pin
              /\ pins'[c] # NoPin
                 => (/\ calls'.path = "changed"
                     /\ c \in ProfileContent(calls'.seen)
                     /\ pins'[c] = [status |-> "pending_pin", retry_count |-> 0]))]_vars

\* a changed-profile sync has just registered a demoted content CID again
C6_Witness ==
  /\ calls.step = "sync"
  /\ calls.path = "changed"
  /\ \E c \in Content : unp[c].row /\ pins[c].status = "pending_pin"

\* C7 (report dedup): the report document never holds two entries with the
\* same cid, even when a CID is flushed more than once.
C7_ReportDedup ==
  \A i, j \in 1..Len(reportFile.entries) :
    reportFile.entries[i] = reportFile.entries[j] => i = j

\* a flush has just met a CID that the document already held
C7_Witness ==
  /\ calls.step = "report"
  /\ calls.skipped # {}
  /\ reportFile.kind = "list"
  /\ \A c \in calls.skipped : InReport(reportFile.entries, c)

\* C8 (cycle-level error containment): when a step of a poll cycle raises,
\* the remaining steps of that cycle are skipped, the loop goes to its
\* sleep and from there to the next cycle; main_loop never ends and the
\* failed step is not tried again in the same cycle.
C8_ErrorContained ==
  /\ []((raised # None /\ calls.step \in CycleSteps)
          => (/\ pc = "sleep"
              /\ trace # <<>>
              /\ trace[Len(trace)] = calls.step))
  /\ [][(pc = "sleep" => pc' = "head")
        /\ (pc \in CycleSteps \cup {"head"} => pc' \in CycleSteps \cup {"head", "sleep"})]_vars

\* a step has raised before the end of the cycle and the loop is at its sleep
C8_Witness ==
  /\ raised # None
  /\ pc = "sleep"
  /\ Len(trace) < 7

\* C9 (cycle ordering): the steps of a poll cycle run in the order profile
\* sync, pending pins, failed pins, unpin requests, reconcile, report, GC
\* tick, and the sleep follows; a cycle that raises nothing runs them all.
C9_CycleOrdering ==
  LET order == <<"sync", "pending", "failed", "unpin", "reconcile", "report", "gc">>
  IN /\ Len(trace) <= Len(order)
     /\ \A i \in 1..Len(trace) : trace[i] = order[i]
     /\ pc \in CycleSteps => (Len(trace) < Len(order) /\ pc = order[Len(trace) + 1])
     /\ (pc = "sleep" /\ raised = None) => trace = order

\* a whole cycle has run and the loop is at its sleep
C9_Witness ==
  /\ pc = "sleep"
  /\ raised = None
  /\ trace = <<"sync", "pending", "failed", "unpin", "reconcile", "report", "gc">>

\* C10 (store I/O errors contained), as stated: a step of the poll cycle in
\* which store operations hit an error raises nothing.
C10_StoreErrorsContained ==
  (calls.step \in CycleSteps /\ calls.faults # {}) => raised = None

\* C10, as the code has it: the only store operations whose error reaches
\* the caller are set_active_miner_profile (and initialize_database at
\* startup).  An error of any other operation leaves the step without an
\* exception and the cycle goes on; an error of set_active_miner_profile is
\* raised again, ends the profile sync and the rest of the cycle is skipped.
C10_OnlyActivationRaises ==
  /\ raised = "aiosqlite.Error"
       => \/ "init" \in calls.faults
          \/ ("set_active" \in calls.faults /\ calls.path \in {"teardown", "changed"})
  /\ (/\ calls.step = "sync"
      /\ "set_active" \in calls.faults
      /\ calls.path \in {"teardown", "changed"})
       => (raised = "aiosqlite.Error" /\ pc = "sleep")
  /\ (calls.step \in CycleSteps /\ calls.faults # {} /\ raised = None)
       => pc \in CycleSteps

\* the read of the pending rows has just failed: the rows are still
\* pending, nothing was raised and the cycle is at its next step
C10_Witness ==
  /\ calls.step = "pending"
  /\ "read_status" \in calls.faults
  /\ raised = None
  /\ pc = "failed"
  /\ \E c \in CIDS : pins[c].status = "pending_pin"

\* C11 (fatal identity failure): while the node identity is not resolved the
\* process is at its start or has stopped, no step has run (no store
\* initialization, no backend call, no profile sync), the store is empty and
\* the daemon's pins are as the process found them.
C11_NoIdentityNoWork ==
  MY_IPFS_NODE_ID = None
    => /\ pc \in {"start", "halted"}
       /\ calls = NoCalls
       /\ trace = <<>>
       /\ pins = [c \in CIDS |-> NoPin]
       /\ prof = [p \in Profiles |-> NoProfile]
       /\ unp = [c \in CIDS |-> NoUnpinnable]
       /\ ipfs \in InitialPins
       /\ gc_counter = 0

\* the identity could not be resolved and startup() has returned
C11_Witness == pc = "halted" /\ MY_IPFS_NODE_ID = None

\* C12 (GC cadence), as stated: every poll cycle, also one in which an
\* earlier step raised, runs the GC tick (the increment of the counter)
\* before its sleep.
C12_EveryCycleTicks ==
  pc = "sleep" => (trace # <<>> /\ trace[Len(trace)] = "gc")

\* C12, as the code has it: the GC tick adds one to the counter and, exactly
\* when the counter reaches GC_TRIGGER_INTERVAL_LOOPS, triggers garbage
\* collection and resets the counter; no other step of the loop changes the
\* counter or triggers garbage collection; a cycle in which a step raised
\* does not run the tick, so it does not count.
C12_GCCadence ==
  /\ [][pc = "gc"
          => IF gc_counter + 1 >= GC_TRIGGER_INTERVAL_LOOPS
             THEN calls'.gc /\ gc_counter' = 0
             ELSE ~calls'.gc /\ gc_counter' = gc_counter + 1]_vars
  /\ [][pc # "gc"
          => (gc_counter' = gc_counter /\ (pc \in CycleSteps => ~calls'.gc))]_vars
  /\ []((pc = "sleep" /\ raised # None) => \A i \in 1..Len(trace) : trace[i] # "gc")

\* the tick has just triggered garbage collection and reset the counter
C12_Witness ==
  /\ pc = "sleep"
  /\ calls.step = "gc"
  /\ calls.gc
  /\ gc_counter = 0

C14_DecoderCases ==
  decoded.done =>
    LET v == decoded.value
        hex == cleaned(v)
        bytes == unhexlify(hex)
        utf8 == IF bytes.ok THEN decode_utf8(bytes.bytes, 1) ELSE bytes
        decodes == hex # <<>> /\ bytes.ok /\ utf8.ok
        plausible == /\ hex # <<>>
                     /\ is_likely_hex(hex)
                     /\ \/ Len(hex) >= 2 /\ <<hex[1], hex[2]>> \in
                                              {str(<<"f", "0">>), str(<<"0", "1">>)}
                        \/ Len(hex) > 40
    IN /\ decoded.result =
            IF v # <<>> /\ LooksLikeCid(v) THEN Result(v)
            ELSE IF decodes THEN Result(utf8.text)
            ELSE IF plausible THEN Result(hex)
            ELSE NoResult
       /\ v = hex_of_utf8_cid => decoded.result = Result(decoded_cid1)
       /\ v = base16_cidv1 => decoded.result = Result(base16_cidv1)
       /\ v = direct_cid_str => decoded.result = Result(direct_cid_str)
       /\ v \in {invalid_hex, non_utf8_hex} => decoded.result = NoResult

\* the literal base-16 string has been decoded to itself: its hex decoding
\* fails and the fall back to the cleaned string applies
C14_Witness ==
  /\ decoded.done
  /\ decoded.value = base16_cidv1
  /\ ~unhexlify(cleaned(decoded.value)).ok
  /\ decoded.result = Result(decoded.value)

\* C15 (changed-profile diff): a sync on the changed-profile path (or at
\* startup) whose profile document pin succeeds and whose content decodes to
\* D, with M the CIDs in status pending_pin, pinned or failed_pin except the
\* new and the prior profile document, leaves every CID of D - M at
\* pending_pin with retry_count 0, every CID of M - D at unpin_requested, and
\* every CID of D \cap M as it was.
C15_ChangedProfileDiff ==
  [][(/\ pc \in {"sync", "startup_sync"}
      /\ calls'.step = pc
      /\ calls'.path = "changed"
      /\ calls'.fails = 0
      /\ raised' = None)
     => LET on_chain == calls'.seen
            prior == {p \in Profiles : prof[p].is_active}
            D == ProfileContent(on_chain)
            M == {c \in CIDS : pins[c].status \in {"pending_pin", "pinned", "failed_pin"}}
                   \ ({on_chain} \cup prior)
        IN /\ \A c \in D \ M : pins'[c] = [status |-> "pending_pin", retry_count |-> 0]
           /\ \A c \in M \ D : pins'[c].status = "unpin_requested"
           /\ \A c \in D \cap M : pins'[c] = pins[c]]_vars

\* C16 (profile-document pin failure): a sync on the changed-profile path (or
\* at startup) whose pin of the profile document fails leaves the active
\* ProfileRecord with pinned_locally false, the profile document's PinRecord
\* at failed_pin with retry_count 1, and every content PinRecord as it was.
C16_ProfilePinFailure ==
  [][(/\ pc \in {"sync", "startup_sync"}
      /\ calls'.step = pc
      /\ calls'.path = "changed"
      /\ calls'.seen \in calls'.pinFail
      /\ raised' = None)
     => /\ prof'[calls'.seen].is_active
        /\ ~prof'[calls'.seen].pinned_locally
        /\ pins'[calls'.seen] = [status |-> "failed_pin", retry_count |-> 1]
        /\ \A c \in Content : pins'[c] = pins[c]]_vars

\* C17 (reset of previously failed CIDs): a sync on the changed-profile path
\* (or at startup) that reaches the content diff resets every newly desired
\* CID whose PinRecord is failed_pin to pending_pin with retry_count 0.
C17_FailedReset ==
  [][(/\ pc \in {"sync", "startup_sync"}
      /\ calls'.step = pc
      /\ calls'.path = "changed"
      /\ calls'.fails = 0
      /\ raised' = None)
     => \A c \in ProfileContent(calls'.seen) :
          pins[c].status = "failed_pin"
            => pins'[c] = [status |-> "pending_pin", retry_count |-> 0]]_vars

\* C18 (PinWorker outcomes): process_pending_pins makes exactly one pin call
\* for each record that was pending_pin when the pass started; a record whose
\* pin succeeded becomes pinned; one whose pin failed with retry_count + 1 <
\* MAX_PIN_RETRIES becomes failed_pin with retry_count increased by 1; none of
\* them is left pending_pin.
C18_PinWorkerOutcomes ==
  [][(pc = "pending" /\ calls'.step = "pending")
     => LET pending == {c \in CIDS : pins[c].status = "pending_pin"}
        IN /\ calls'.pin = pending
           /\ calls'.npin = Cardinality(pending)
           /\ \A c \in pending :
                /\ c \notin calls'.pinFail => pins'[c].status = "pinned"
                /\ (c \in calls'.pinFail /\ pins[c].retry_count + 1 < MAX_PIN_RETRIES)
                     => pins'[c] = [status |-> "failed_pin",
                                    retry_count |-> pins[c].retry_count + 1]
                /\ pins'[c].status # "pending_pin"]_vars

\* a pass over two pending records has run: one pin failed for the first
\* time, the other succeeded
C18_Witness ==
  /\ calls.step = "pending"
  /\ calls.npin = 2
  /\ \E c \in calls.pinFail : pins[c] = [status |-> "failed_pin", retry_count |-> 1]
  /\ \E c \in calls.pin \ calls.pinFail : pins[c].status = "pinned"

\* C19 (short-circuit at the threshold): process_failed_pins makes no pin
\* call for a failed_pin record whose retry_count is already at or above
\* MAX_PIN_RETRIES; it deletes the PinRecord and upserts an unreported
\* UnpinnableRecord.  Its pin calls are those for the records below the
\* threshold, one each.
C19_ShortCircuit ==
  [][(pc = "failed" /\ calls'.step = "failed")
     => LET failed == {c \in CIDS : pins[c].status = "failed_pin"}
            over == {c \in failed : pins[c].retry_count >= MAX_PIN_RETRIES}
        IN /\ calls'.pin = failed \ over
           /\ calls'.npin = Cardinality(failed \ over)
           /\ \A c \in over : /\ pins'[c] = NoPin
                              /\ (unp'[c].row /\ ~unp'[c].reported)
                              /\ (c \in ipfs') = (c \in ipfs)]_vars

\* a retry pass has met only records at or above the threshold: it demoted
\* them and made no backend call
C19_Witness ==
  /\ calls.step = "failed"
  /\ calls.npin = 0
  /\ calls.pin = {}
  /\ \E c \in Content : pins[c] = NoPin /\ (unp[c].row /\ ~unp[c].reported)

\* C20 (UnpinWorker outcomes): process_unpin_requests calls unpin once for
\* every record that is unpin_requested; a record whose unpin succeeded is
\* deleted; one whose unpin failed becomes failed_pin with its retry_count
\* unchanged, and no UnpinnableRecord is created.
C20_UnpinWorkerOutcomes ==
  [][(pc = "unpin" /\ calls'.step = "unpin")
     => LET requested == {c \in CIDS : pins[c].status = "unpin_requested"}
        IN /\ calls'.unpin = requested
           /\ calls'.nunpin = Cardinality(requested)
           /\ \A c \in requested :
                IF c \in calls'.unpinFail
                THEN pins'[c] = [status |-> "failed_pin",
                                 retry_count |-> pins[c].retry_count]
                ELSE pins'[c] = NoPin
           /\ unp' = unp]_vars

\* an unpin pass has run in which an unpin call failed: the record is
\* failed_pin and there is no UnpinnableRecord for it
C20_Witness ==
  /\ calls.step = "unpin"
  /\ \E c \in calls.unpinFail : pins[c].status = "failed_pin" /\ ~unp[c].row

\* C21 (the sweep protects the active profile document): reconcile_ipfs_pins
\* makes no unpin call for the active profile CID; when the daemon lists that
\* CID and the store does not hold it as pinned or pending_pin, the CID has a
\* PinRecord with status pinned after the sweep.
C21_SweepProtectsProfile ==
  [][(pc = "reconcile" /\ calls'.step = "reconcile")
     => \A p \in Profiles :
          prof[p].is_active
            => /\ p \notin calls'.unpin
               /\ (p \in calls'.listed /\ pins[p].status \notin {"pinned", "pending_pin"})
                    => pins'[p].status = "pinned"]_vars

\* a sweep has unpinned a stray CID and left the listed active profile
\* document alone, which holds a pinned PinRecord
C21_Witness ==
  /\ calls.step = "reconcile"
  /\ calls.unpin # {}
  /\ \E p \in Profiles : /\ prof[p].is_active
                         /\ p \in calls.listed
                         /\ p \notin calls.unpin
                         /\ pins[p] = [status |-> "pinned", retry_count |-> 0]

\* C22 (frame condition for stray pins): for every CID the daemon lists that
\* the store does not hold as pinned or pending_pin and that is not the
\* active profile CID, reconcile_ipfs_pins makes one unpin call, and it makes
\* no other; whether the call succeeds or fails, the CID's PinRecord and
\* UnpinnableRecord and all ProfileRecords stay as they were, and a sweep that
\* has only stray pins to handle leaves the whole store as it was.
C22_StrayFrame ==
  [][(pc = "reconcile" /\ calls'.step = "reconcile")
     => LET desired == {c \in CIDS : pins[c].status \in {"pinned", "pending_pin"}}
            active == {p \in Profiles : prof[p].is_active}
            stray == (calls'.listed \ desired) \ active
        IN /\ calls'.unpin = stray
           /\ calls'.nunpin = Cardinality(stray)
           /\ \A c \in stray : pins'[c] = pins[c] /\ unp'[c] = unp[c]
           /\ prof' = prof
           /\ (desired \subseteq calls'.listed /\ active \cap (calls'.listed \ desired) = {})
                => (pins' = pins /\ unp' = unp)]_vars

\* a sweep has made two unpin calls for stray pins, one that succeeded and
\* one that failed, for CIDs of which one has a PinRecord
C22_Witness ==
  /\ calls.step = "reconcile"
  /\ calls.nunpin = 2
  /\ calls.unpinFail # {}
  /\ calls.unpin \ calls.unpinFail # {}
  /\ \E c \in calls.unpin : pins[c].status # "absent"

\* C23 (the sweep repairs missing pins with the retry policy): for every CID
\* the store holds as pinned or pending_pin that the daemon's listing lacks,
\* reconcile_ipfs_pins makes one pin call, and it makes no other; on success
\* the status is pinned; on failure the new retry_count is the stored one
\* plus 1, and the record is demoted to unpinnable when that reaches
\* MAX_PIN_RETRIES and is failed_pin with that count otherwise.
C23_SweepRepairsMissing ==
  [][(pc = "reconcile" /\ calls'.step = "reconcile")
     => LET desired == {c \in CIDS : pins[c].status \in {"pinned", "pending_pin"}}
            missing == desired \ calls'.listed
        IN /\ calls'.pin = missing
           /\ calls'.npin = Cardinality(missing)
           /\ \A c \in missing :
                IF c \notin calls'.pinFail
                THEN pins'[c] = [status |-> "pinned", retry_count |-> pins[c].retry_count]
                ELSE IF pins[c].retry_count + 1 >= MAX_PIN_RETRIES
                THEN pins'[c] = NoPin /\ (unp'[c].row /\ ~unp'[c].reported)
                ELSE /\ pins'[c] = [status |-> "failed_pin",
                                    retry_count |-> pins[c].retry_count + 1]
                     /\ unp'[c] = unp[c]]_vars

\* a sweep has tried to pin two missing CIDs: one pin succeeded, the other
\* failed at the threshold and the CID was demoted
C23_Witness ==
  /\ calls.step = "reconcile"
  /\ \E c \in calls.pinFail : pins[c] = NoPin /\ (unp[c].row /\ ~unp[c].reported)
  /\ \E c \in calls.pin \ calls.pinFail : pins[c].status = "pinned"

C25_ReportFileTolerance ==
  [][(/\ pc = "report"
      /\ calls'.step = "report"
      /\ calls'.fails = 0
      /\ \E c \in CIDS : unp[c].row /\ ~unp[c].reported)
     => /\ raised' = None
        /\ reportFile'.kind = "list"
        /\ \A c \in CIDS : (unp[c].row /\ ~unp[c].reported)
                              => /\ InReport(reportFile'.entries, c)
                                 /\ unp'[c].reported]_vars

\* C26 (GC counter reset and bound): a GC tick that triggers garbage
\* collection leaves the counter at 0 whether the garbage_collect request
\* succeeded or failed; the counter is never negative and never reaches
\* GC_TRIGGER_INTERVAL_LOOPS at the end of a cycle (nor anywhere else).
C26_GCCounterBound ==
  /\ [][(pc = "gc" /\ calls'.gc) => gc_counter' = 0]_vars
  /\ [](pc = "sleep" => (0 <= gc_counter /\ gc_counter < GC_TRIGGER_INTERVAL_LOOPS))
  /\ [](gc_counter \in 0..(GC_TRIGGER_INTERVAL_LOOPS - 1))

\* a cycle has ended in which the garbage collection was triggered and its
\* request failed; the counter is 0
C26_Witness ==
  /\ pc = "sleep"
  /\ calls.step = "gc"
  /\ calls.gc
  /\ calls.fails = 1
  /\ gc_counter = 0

\* C27 (re-creating an UnpinnableRecord): add_unpinnable_cid for a CID that
\* already has an UnpinnableRecord leaves one record for that CID, with the
\* new reason and reported false even if it was true, so the CID is among
\* the records the next flush reads; the records of other CIDs stay as they
\* were.
C27_Recreated ==
  [][(calls'.step = "add_unpinnable_cid" /\ unp[calls'.arg[1]].row)
     => LET cid == calls'.arg[1]
            reason == calls'.arg[2]
        IN /\ unp'[cid] = [row |-> TRUE, reported |-> FALSE, reason |-> reason]
           /\ cid \in get_unpinnable_cids_to_report(unp', FALSE)
           /\ \A c \in CIDS \ {cid} : unp'[c] = unp[c]]_vars

\* a record that was reported, with another reason, has been created again
C27_Witness ==
  /\ calls.step = "add_unpinnable_cid"
  /\ calls.arg[3].row
  /\ calls.arg[3].reported
  /\ calls.arg[3].reason # calls.arg[2]
  /\ unp[calls.arg[1]] = [row |-> TRUE, reported |-> FALSE, reason |-> calls.arg[2]]

\* C28 (bootstrap ordering): identity resolution, store initialization,
\* aggressive cleanup, the startup profile sync and one garbage collection
\* run in this order, each once, before the first poll cycle; the cleanup is
\* followed by the startup sync whatever failed inside it.  startup() ends
\* early only when the identity is not resolved or when the store
\* initialization or the startup sync raises.
C28_BootstrapOrder ==
  /\ [][/\ pc = "start" => pc' \in {"init_db", "halted"}
        /\ pc = "init_db" => (pc' \in {"cleanup", "halted"} /\ calls'.step = "init_db")
        /\ pc = "cleanup" => (pc' = "startup_sync" /\ calls'.step = "cleanup")
        /\ pc = "startup_sync"
             => /\ calls'.step = "startup_sync"
                /\ pc' = IF raised' = None THEN "startup_gc" ELSE "halted"
        /\ pc = "startup_gc" => (pc' = "head" /\ calls'.step = "startup_gc" /\ calls'.gc)
        /\ pc' # "start"
        /\ pc' = "init_db" => pc = "start"
        /\ pc' = "cleanup" => pc = "init_db"
        /\ pc' = "startup_sync" => pc = "cleanup"
        /\ pc' = "startup_gc" => pc = "startup_sync"
        /\ pc' = "head" => pc \in {"startup_gc", "sleep", "head"}
        /\ pc' = "sync" => pc = "head"]_vars
  /\ [](pc \in CycleSteps \cup {"head", "sleep"} => MY_IPFS_NODE_ID # None)

\* the startup sync has run without a failure of its own after a cleanup in
\* which a request failed
C28_Witness ==
  /\ pc = "startup_gc"
  /\ calls.step = "startup_sync"
  /\ calls.fails = 0
  /\ raised = None
  /\ envBudget.fail < MaxFailures

\* C29 (aggressive startup cleanup): the cleanup calls unpin once on each
\* CID that the backend listed as pinned and that is neither the probed
\* chain profile document nor a CID of its content, the content being
\* counted only when the document was pinned and fetched; the probed
\* document is never unpinned, and the store is left as it was.
C29_AggressiveCleanup ==
  [][pc = "cleanup"
       => LET probed == calls'.seen
              content == IF calls'.path = "probe_content"
                         THEN ProfileContent(probed) ELSE {}
              desired == (IF probed = None THEN {} ELSE {probed}) \cup content
          IN /\ calls'.step = "cleanup"
             /\ calls'.listed \in {ipfs, {}}
             /\ calls'.unpin = calls'.listed \ desired
             /\ calls'.nunpin = Cardinality(calls'.unpin)
             /\ probed \notin calls'.unpin
             /\ calls'.path = "probe_content" => (probed # None /\ probed \notin calls'.pinFail)
             /\ probed # None => calls'.pin = {probed}
             /\ ipfs' = (ipfs \cup (calls'.pin \ calls'.pinFail))
                          \ (calls'.unpin \ calls'.unpinFail)
             /\ pins' = pins /\ prof' = prof /\ unp' = unp]_vars

\* a cleanup that unpinned a listed stray CID and spared a listed CID of the
\* probed profile's content
C29_Witness ==
  /\ pc = "startup_sync"
  /\ calls.step = "cleanup"
  /\ calls.seen # None
  /\ calls.path = "probe_content"
  /\ ProfileContent(calls.seen) \cap calls.listed # {}
  /\ calls.unpin # {}
  /\ calls.unpin \cap ProfileContent(calls.seen) = {}

\* C30 (activation registers the profile document): after a sync that
\* activated the chain profile P with set_active_miner_profile(P) and did
\* not raise, pinned_cids holds a PinRecord for P.
C30_ActivationRegisters ==
  [][(/\ pc \in {"sync", "startup_sync"}
      /\ calls'.step = pc
      /\ calls'.path = "changed"
      /\ raised' = None)
     => pins'[calls'.seen].status # "absent"]_vars

\* C31 (pinned_locally belongs to the active profile only): in every state a
\* ProfileRecord with pinned_locally true is a row with is_active true, and
\* a step that deactivates a profile leaves its pinned_locally false.
C31_PinnedLocallyOnlyActive ==
  /\ [](\A x \in Profiles : prof[x].pinned_locally => (prof[x].row /\ prof[x].is_active))
  /\ [][\A x \in Profiles :
          (prof[x].is_active /\ ~prof'[x].is_active) => ~prof'[x].pinned_locally]_vars

\* a profile that was replaced is kept as an inactive row that is not pinned
\* locally, next to the active profile that is
C31_Witness ==
  \E x \in Profiles, y \in Profiles :
    /\ x # y
    /\ prof[x].row /\ ~prof[x].is_active /\ ~prof[x].pinned_locally
    /\ prof[y].row /\ prof[y].is_active /\ prof[y].pinned_locally

\* C32 (decoder, profile file_hash variant): for character codes spelling a
\* string that is not the hex of a UTF-8 string, not a plausible base-16
\* string (all hex digits, starting with f0 or 01 or longer than 40) and not
\* CID-shaped, decode_profile_file_hash_to_cid gives no result and the
\* string is not among the desired CIDs.
C32_ProfileDecoderFallback ==
  (pc = "profile_decoded" /\ decoded.done) =>
    LET v == decoded.value
        bytes == unhexlify(v)
        utf8 == IF bytes.ok THEN decode_utf8(bytes.bytes, 1) ELSE bytes
        plausible == /\ is_likely_hex(v)
                     /\ \/ startswith(lower(v), str(<<"f", "0">>))
                        \/ startswith(lower(v), str(<<"0", "1">>))
                        \/ Len(v) > 40
    IN (v # <<>> /\ ~(bytes.ok /\ utf8.ok) /\ ~plausible /\ ~LooksLikeCid(v))
         => /\ decoded.result = NoResult
            /\ cids_from_profile({v}) = {}

\* C33 (retry counter stays under the threshold): at the end of every poll
\* cycle that completed without an unhandled error, every PinRecord has
\* 0 <= retry_count < MAX_PIN_RETRIES.
C33_RetryUnderThreshold ==
  (pc = "sleep" /\ raised = None)
    => \A c \in CIDS :
         pins[c].status # "absent" => pins[c].retry_count \in 0..(MAX_PIN_RETRIES - 1)

\* a cycle has ended with one record one failure away from the threshold
\* and another CID demoted to the unpinnable table
C33_Witness ==
  /\ pc = "sleep"
  /\ raised = None
  /\ \E c \in CIDS : pins[c] = [status |-> "failed_pin", retry_count |-> MAX_PIN_RETRIES - 1]
  /\ \E d \in CIDS : pins[d] = NoPin /\ unp[d].row

\* C34 (no re-pin of content scheduled for removal): for a content CID that
\* a profile sync has set to unpin_requested and that no later sync has
\* found in the desired content, no step calls pin and the PinRecord is
\* never pinned.
C34_NoRepinOfScheduled ==
  /\ [][\A c \in scheduled \cap scheduled' : c \notin calls'.pin]_vars
  /\ [](\A c \in scheduled : pins[c].status # "pinned")

\* C35 (deferred content is eventually processed): when the sync of a poll
\* cycle sees a new chain profile p and the pin of p's document or the fetch
\* of its content fails, and from then on every request is answered, then
\* eventually the chain profile is no longer p or every CID of p's content
\* has a PinRecord with status pinned and is pinned in the daemon.
C35_DeferredContentProcessed ==
  \A p \in Profiles :
    (/\ calls.step = "sync"
     /\ calls.path = "changed"
     /\ calls.seen = p
     /\ calls.fails > 0
     /\ envBudget.fail = 0)
      ~> (\/ chain # p
          \/ \A c \in ProfileContent(p) : pins[c].status = "pinned" /\ c \in ipfs)

\* C36 (transient chain failure is not a teardown): a sync whose chain
\* query fails while the chain holds a profile for the node leaves every
\* ProfileRecord and every PinRecord as it was.
C36_ChainFailureNoTeardown ==
  [][(/\ pc = "sync"
      /\ calls'.step = "sync"
      /\ chain # None
      /\ calls'.seen = None)
     => (prof' = prof /\ pins' = pins)]_vars

\* C37 (the sweep never unpins intended content): reconcile_ipfs_pins calls
\* unpin only on CIDs whose PinRecord, when the run starts, is not pinned
\* and not pending_pin, also in a run whose read of the intended set fails.
C37_SweepSparesIntended ==
  [][(pc = "reconcile" /\ calls'.step = "reconcile")
     => \A c \in calls'.unpin : pins[c].status \notin {"pinned", "pending_pin"}]_vars

\* C38 (the queues are drained each cycle): at the end of every poll cycle
\* that completed without an unhandled error, with no store error, no
\* PinRecord is pending_pin or unpin_requested: every record is pinned or
\* failed_pin, and every other CID has no record.
C38_QueuesDrained ==
  (pc = "sleep" /\ raised = None)
    => \A c \in CIDS : pins[c].status \in {"absent", "pinned", "failed_pin"}

\* a cycle has ended with a pinned record, a record waiting for its retry
\* and a CID that a sync had scheduled for removal
C38_Witness ==
  /\ pc = "sleep"
  /\ raised = None
  /\ scheduled # {}
  /\ \E c \in CIDS : pins[c].status = "pinned"
  /\ \E c \in CIDS : pins[c].status = "failed_pin"

\* C39 (steady state): in a behaviour without a failed request, once the
\* chain profile is fixed at P the service reaches, and stays in, a state in
\* which the daemon's pinned set is P's content and P's document, and the
\* PinRecords are exactly those CIDs, all with status pinned.
C39_SteadyState ==
  <>[](\/ chain = None
       \/ envBudget.fail < MaxFairFailures
       \/ LET want == ProfileContent(chain) \cup {chain}
          IN /\ ipfs = want
             /\ \A c \in CIDS : pins[c].status = IF c \in want THEN "pinned" ELSE "absent")

=============================================================================
